---- MODULE Spec2Model ----
(***************************************************************************)
(* Model of tools/analysis/cross_reference.py: the cross-reference CLI     *)
(* (main) and the CrossReferenceAnalyzer it drives.  One run of main() is  *)
(* a behaviour; the file system the run reads is chosen in Init.           *)
(*                                                                         *)
(* Python strings that the code inspects character by character (paths,    *)
(* missing-item descriptors, version labels) are sequences of one-char     *)
(* strings, so that `in`, slicing, relative_to and sorted() are computed.  *)
(* Python dicts are sequences in insertion order with unique keys.         *)
(***************************************************************************)
EXTENDS Integers, Sequences, FiniteSets, TLC

VARIABLES
    argsOk,            \* argv carries all three required options
    prodDir,           \* the --production-dir argument
    now,               \* the wall clock read by datetime.now()
    run,               \* how many times the tool has been started on these inputs
    previous,          \* the report of the preceding run on these inputs
    calls,             \* calls of analyze() on the CrossReferenceAnalyzer instance
    prodExists,        \* the production root exists
    prodTop,           \* entries existing directly under the production root
    prodTree,          \* regular files of the production tree: rel. path -> fate
    archExists,        \* the archive root exists
    archDirs,          \* version directories under the archive root
    archStray,         \* the archive root also holds a regular file
    archTree,          \* version -> (rel. path -> fate)
    pc,                \* position of the run inside main()/analyze()
    versionQueue,      \* sorted(archive_dir.iterdir()) entries still to visit
    production_files,  \* self.production_files
    archive_files,     \* self.archive_files
    duplicates,        \* self.duplicates
    lineage,           \* self.lineage
    missing,           \* self.missing
    report,            \* the dict _generate_report returns (NoReport before)
    written,           \* artifacts present in the output directory
    outDirMade,        \* the output directory was created by __init__
    error,             \* the exception that ended the run, "none" otherwise
    vanished,          \* files removed under the scanner between is_file() and stat()
    hashed,            \* files whose content compute_file_hash was called on
    exitCode,          \* process exit status, NoExit while running
    \* performance_optimizer.main()
    reportFile,        \* sandbox/parent/fitness-report.json
    directiveWritable, \* open(directive_file, 'a') succeeds
    directiveBefore,   \* the directive file as main() found it
    directive,         \* core/src/performance/optimization_directive.txt
    suggestions,       \* the list analyze_metrics returned
    applied,           \* suggestions the loop of main() has passed to apply_optimization
    perfPc,            \* position inside performance_optimizer.main()
    \* test_rate_limit
    policy,            \* what load_rate_limits() returns: configs/rate_limits.yaml
    tenant_name,       \* the tenant of the scenarios
    request_count,     \* request_count of the next scenario
    duration_seconds,  \* duration_seconds of the scenarios
    results,           \* the results simulate_request has returned, oldest first
    \* migrate_config: ConfigDiffer
    config1,           \* the configuration ConfigDiffer.diff is given first
    config2,           \* the configuration it is compared with
    difference,        \* the dict ConfigDiffer.diff returned
    result,            \* the dict ConfigDiffer.apply_diff returned
    diffPc,            \* position of the caller of ConfigDiffer
    \* validate_config: ConfigValidator
    errors,            \* self.errors
    warnings,          \* self.warnings
    validations,       \* the calls made on the instance, with what they returned
    \* unify_agents.main()
    present,           \* the files of the directory and of schema/
    ip,                \* the statement main() is at
    pending,           \* files the running loop has still to visit
    archive,           \* copies placed in the archive sub-directories
    copied,            \* canonical targets written by shutil.copy2
    removed,           \* files unlinked by the script
    unifyError,        \* the step whose exception main() caught, "none" otherwise
    unifyExit,         \* what main() returned, NoExit while it runs
    \* test_slo_check
    slo,               \* policy.get('slo', []): the SLOs of slo/policies.yaml
    metrics,           \* the metrics map check_slo is given
    checked,           \* the (overall_pass, results) check_slo returned
    sloPc,             \* position of the caller of check_slo
    \* migrate_config: ConfigMigrator
    migConfig,         \* the configuration: the argument of migrate, the document of the file
    migSource,         \* the file migrate_file is called on
    from_version,      \* from_version of the call of migrate
    to_version,        \* the requested version
    output,            \* the output argument of migrate_file
    migCall,           \* the method that was called, "none" before
    migrated,          \* what the method returned or raised
    outFile            \* the file at the output path

analyzerVars == <<argsOk, prodDir, now, run, previous, calls, prodExists, prodTop, prodTree,
          archExists, archDirs, archStray, archTree, pc, versionQueue,
          production_files, archive_files, duplicates, lineage, missing, report,
          written, outDirMade, error, vanished, hashed, exitCode>>

perfVars == <<reportFile, directiveWritable, directiveBefore, directive, suggestions,
              applied, perfPc>>

rateVars == <<policy, tenant_name, request_count, duration_seconds, results>>

diffVars == <<config1, config2, difference, result, diffPc>>

validatorVars == <<errors, warnings, validations>>

unifyVars == <<present, ip, pending, archive, copied, removed, unifyError, unifyExit>>

sloVars == <<slo, metrics, checked, sloPc>>

migrateVars == <<migConfig, migSource, from_version, to_version, output, migCall,
                  migrated, outFile>>

\* the other programs of the repository
toolVars == <<perfVars, rateVars, diffVars, validatorVars, unifyVars, sloVars, migrateVars>>

vars == <<analyzerVars, toolVars>>

\* what a run is started on, and what it never touches
fsVars == <<argsOk, prodDir, now, run, previous, calls, prodExists, prodTop, prodTree,
            archExists, archDirs, archStray, archTree, toolVars>>

----------------------------------------------------------------------------
(* Bounds of the model *)

MaxFiles == 3       \* regular files in the whole corpus
MaxTopDev == 1      \* expected entries absent (or present) when the corpus is empty
MaxHiddenFiles == 2 \* regular files in a corpus whose production root is HiddenRoot

----------------------------------------------------------------------------
(* Strings *)

Range(s) == {s[i] : i \in 1..Len(s)}

\* Python `pat in s` on strings
Contains(pat, s) ==
    \E i \in 0..(Len(s) - Len(pat)) : SubSeq(s, i + 1, i + Len(pat)) = pat

\* code points of the characters that occur in version labels and stray names
Ord(c) ==
    CASE c = "0" -> 48 [] c = "1" -> 49 [] c = "2" -> 50
      [] c = "n" -> 110 [] c = "v" -> 118
      [] OTHER -> 0

\* Python `a < b` on strings (lexicographic by code point)
RECURSIVE StrLess(_, _)
StrLess(a, b) ==
    IF b = <<>> THEN FALSE
    ELSE IF a = <<>> THEN TRUE
    ELSE IF Ord(Head(a)) # Ord(Head(b)) THEN Ord(Head(a)) < Ord(Head(b))
    ELSE StrLess(Tail(a), Tail(b))

\* fault variant: the largest label first
RECURSIVE Sorted_descending(_)
Sorted_descending(S) ==
    IF S = {} THEN <<>>
    ELSE LET m == CHOOSE x \in S : \A y \in S \ {x} : StrLess(y, x)
         IN <<m>> \o Sorted_descending(S \ {m})

\* sorted(S) for a set of strings
RECURSIVE Sorted(_)
Sorted(S) ==
    IF S = {} THEN <<>>
    ELSE LET m == CHOOSE x \in S : \A y \in S \ {x} : StrLess(x, y)
         IN <<m>> \o Sorted(S \ {m})

\* Path.name: the final component of a path string
RECURSIVE PathName(_)
PathName(p) ==
    IF ~ ("/" \in Range(p)) THEN p
    ELSE PathName(Tail(p))

\* base / rel
Join(base, rel) == base \o <<"/">> \o rel

\* Path.relative_to(base) for a path below base
RelativeTo(full, base) == SubSeq(full, Len(base) + 2, Len(full))

Slash == <<"/">>

ProdRoot == <<"p","r","o","d">>
HiddenRoot == <<".","g","i","t","h","u","b","/","p">>
ArchRoot == <<"a","r","c","h">>

V1 == <<"v","1">>
V2 == <<"v","2">>
Versions == {V1, V2}
StrayName == <<"n">>

P_a == <<"a",".","t","x","t">>
P_da == <<"d","/","a",".","t","x","t">>
P_b == <<"b",".","t","x","t">>
P_pyc == <<"a",".","p","y","c">>
FilePaths == {P_a, P_da, P_b, P_pyc}

Production == <<"p","r","o","d","u","c","t","i","o","n">>

----------------------------------------------------------------------------
(* File contents and digests *)

Contents == {"X", "Y"}
Unreadable == "unreadable"
Absent == "absent"
Fates == Contents \cup {Unreadable}

\* hashlib.sha256(...).hexdigest(): 64 hex digits, kept as the 16 digits the
\* report displays and the 48 it drops; distinct contents, distinct digests
Sha256(content) == << <<"h", content>>, <<"t", content>> >>

EmptyDigest == <<>>

----------------------------------------------------------------------------
(* Program constants of cross_reference.py *)

expected_dirs ==
    << <<"c","o","r","e","/","s","r","c">>,
       <<"s","e","r","v","i","c","e","s">>,
       <<"t","e","s","t","s">>,
       <<"d","o","c","s">>,
       <<"d","e","p","l","o","y">>,
       <<"s","e","c","u","r","i","t","y">>,
       <<"d","a","s","h","b","o","a","r","d","s">>,
       <<"a","l","e","r","t","s">>,
       <<"s","l","o">> >>

expected_files ==
    << <<"C","a","r","g","o",".","t","o","m","l">>,
       <<"R","E","A","D","M","E",".","m","d">>,
       <<"C","H","A","N","G","E","L","O","G",".","m","d">>,
       <<".","t","o","d","o">> >>

skip_patterns ==
    << <<".","g","i","t">>,
       <<"_","_","p","y","c","a","c","h","e","_","_">>,
       <<".","p","y","c">>,
       <<"n","o","d","e","_","m","o","d","u","l","e","s">>,
       <<"t","a","r","g","e","t","/","d","e","b","u","g">>,
       <<"t","a","r","g","e","t","/","r","e","l","e","a","s","e">>,
       <<".","D","S","_","S","t","o","r","e">> >>

DirectoryPrefix == <<"d","i","r","e","c","t","o","r","y",":"," ">>

FilePrefix == <<"f","i","l","e",":"," ">>

Core == <<"c","o","r","e">>

Security == <<"s","e","c","u","r","i","t","y">>

NoReport == [none |-> TRUE]
NoExit == 0 - 1

----------------------------------------------------------------------------
(* Ordered dicts: sequences of records with a unique key field *)

\* d[key] = value for a dict kept as a sequence of [path |-> key, ...] records
DictSetPath(d, value) ==
    IF \E i \in 1..Len(d) : d[i].path = value.path
    THEN [i \in 1..Len(d) |-> IF d[i].path = value.path THEN value ELSE d[i]]
    ELSE Append(d, value)

\* d[key] = value for a dict kept as a sequence of [key |-> ..., ...] records
DictSetKey(d, value) ==
    IF \E i \in 1..Len(d) : d[i].key = value.key
    THEN [i \in 1..Len(d) |-> IF d[i].key = value.key THEN value ELSE d[i]]
    ELSE Append(d, value)

\* d after every item of the dict e has been assigned to it in e's order
\* (d.update(e)): the keys of d keep their place and take e's value, the keys
\* new to d follow in e's order
DictUpdatePath(d, e) ==
    [i \in 1..Len(d) |->
        IF \E j \in 1..Len(e) : e[j].path = d[i].path
        THEN e[CHOOSE j \in 1..Len(e) : e[j].path = d[i].path] ELSE d[i]]
    \o SelectSeq(e, LAMBDA x : \A i \in 1..Len(d) : d[i].path # x.path)

DictUpdateKey(d, e) ==
    [i \in 1..Len(d) |->
        IF \E j \in 1..Len(e) : e[j].key = d[i].key
        THEN e[CHOOSE j \in 1..Len(e) : e[j].key = d[i].key] ELSE d[i]]
    \o SelectSeq(e, LAMBDA x : \A i \in 1..Len(d) : d[i].key # x.key)

\* all orders in which a walk can enumerate the set S
Perms(S) ==
    {f \in [1..Cardinality(S) -> S] : \A i, j \in 1..Cardinality(S) : f[i] = f[j] => i = j}

----------------------------------------------------------------------------
(* Content Identifier *)

\* the content of a file of zero bytes: read() returns b"" at once and
\* hexdigest() is the digest of no input, 64 hex digits like any other
ZeroByte == "X"

\* fault variant: a file without bytes gets the empty digest
compute_file_hash_noneForZeroBytes(fate) ==
    IF fate = Unreadable \/ fate = ZeroByte THEN EmptyDigest ELSE Sha256(fate)

\* compute_file_hash: the digest of a readable file, "" when open/read raises
compute_file_hash(fate) ==
    IF fate = Unreadable THEN EmptyDigest ELSE Sha256(fate)

\* get_file_info (size, extension and modified are not consulted by the analysis)
get_file_info(filepath, base_dir, fate) ==
    [path |-> RelativeTo(filepath, base_dir),
     name |-> PathName(filepath),
     hash |-> compute_file_hash(fate)]

----------------------------------------------------------------------------
(* Tree Scanner *)

\* fault variant: the patterns are looked for in the file's name only
_should_skip_nameOnly(filepath) ==
    \E k \in 1..Len(skip_patterns) : Contains(skip_patterns[k], PathName(filepath))

\* `any(pattern in path_str for pattern in skip_patterns)` on str(filepath)
_should_skip(filepath) ==
    \E k \in 1..Len(skip_patterns) : Contains(skip_patterns[k], filepath)

\* the loop of scan_directory over the files rglob yields, in the order given,
\* from the dict `files`.  The assignments of a walk are those of its first
\* part followed by those of the rest, and the assignments of the rest have
\* the effect of an update with the dict they build from an empty one.
RECURSIVE ScanLoop(_, _, _, _, _)
ScanLoop(files, order, directory, base_dir, tree) ==
    IF order = <<>> THEN files
    ELSE IF Len(order) = 1
    THEN LET filepath == Join(directory, Head(order))
         IN IF ~ _should_skip(filepath)
            THEN DictSetPath(files, get_file_info(filepath, base_dir, tree[Head(order)]))
            ELSE files
    ELSE LET half == Len(order) \div 2
         IN DictUpdatePath(
                ScanLoop(files, SubSeq(order, 1, half), directory, base_dir, tree),
                ScanLoop(<<>>, SubSeq(order, half + 1, Len(order)), directory, base_dir, tree))

\* the files of one scan_directory loop that get_file_info is called on
HashedBy(order, directory) ==
    {order[i] : i \in {k \in 1..Len(order) : ~ _should_skip(Join(directory, order[k]))}}

\* regular files below a root
FilesOf(tree) == {p \in DOMAIN tree : tree[p] # Absent}

scan_directory(exists, directory, base_dir, tree, order) ==
    IF ~ exists THEN <<>>
    ELSE ScanLoop(<<>>, order, directory, base_dir, tree)

----------------------------------------------------------------------------
(* Duplicate Detector *)

\* the (source, path, hash) triples in the order _find_duplicates visits them:
\* production_files.items(), then archive_files.items() tree by tree
Labelled(source, files) ==
    [i \in 1..Len(files) |-> [source |-> source, path |-> files[i].path, hash |-> files[i].hash]]

RECURSIVE ArchiveVisit(_)
ArchiveVisit(arch) ==
    IF arch = <<>> THEN <<>>
    ELSE Labelled(Head(arch).version, Head(arch).files) \o ArchiveVisit(Tail(arch))

\* `if info["hash"]`: a non-empty digest
Truthy(hash) == hash # EmptyDigest

VisitOrder(prod, arch) ==
    SelectSeq(Labelled(Production, prod) \o ArchiveVisit(arch), LAMBDA e : Truthy(e.hash))

\* fault variant: a key for every visited file
HashKeys_noDedup(visit, seen) == [i \in 1..Len(visit) |-> visit[i].hash]

\* keys of hash_to_files in insertion order: those the first part of the visit
\* inserts, then those the rest inserts that are not yet keys
RECURSIVE HashKeys(_, _)
HashKeys(visit, seen) ==
    IF visit = <<>> THEN <<>>
    ELSE IF Len(visit) = 1
    THEN (IF Head(visit).hash \in seen THEN <<>> ELSE <<Head(visit).hash>>)
    ELSE LET half == Len(visit) \div 2
         IN HashKeys(SubSeq(visit, 1, half), seen)
            \o HashKeys(SubSeq(visit, half + 1, Len(visit)),
                        seen \cup {visit[i].hash : i \in 1..half})

\* hash_to_files[h]
LocationsOf(visit, h) ==
    LET hits == SelectSeq(visit, LAMBDA e : e.hash = h)
    IN [i \in 1..Len(hits) |-> [source |-> hits[i].source, path |-> hits[i].path]]

\* file_hash[:16]
Prefix16(hash) == hash[1]

\* fault variant: a group needs three locations
IsDuplicated_moreThanTwo(locations) == Len(locations) > 2

\* `if len(locations) > 1`
IsDuplicated(locations) == Len(locations) > 1

\* the groups _find_duplicates appends to self.duplicates
_find_duplicates(prod, arch) ==
    LET visit == VisitOrder(prod, arch)
        keys == HashKeys(visit, {})
        kept == SelectSeq(keys, LAMBDA h : IsDuplicated(LocationsOf(visit, h)))
    IN [i \in 1..Len(kept) |-> [hash |-> Prefix16(kept[i]), locations |-> LocationsOf(visit, kept[i])]]

----------------------------------------------------------------------------
(* Lineage Tracer *)

\* archive_files[version]
TreeOf(arch, version) ==
    LET i == CHOOSE i \in 1..Len(arch) : arch[i].version = version
    IN arch[i].files

\* `prod_info["hash"] == arch_info["hash"]`
HashMatch(prod_hash, arch_hash) == prod_hash = arch_hash

\* fault variant: only the last same-named file of a version is kept
LineageIn_lastOnly(prod_info, version, files) ==
    LET hits == SelectSeq(files, LAMBDA a : a.name = prod_info.name)
    IN IF hits = <<>> THEN <<>>
       ELSE << [version |-> version, path |-> hits[Len(hits)].path,
                hash_match |-> prod_info.hash = hits[Len(hits)].hash] >>

\* fault variant: archive files are matched by relative path instead of name
LineageIn_byPath(prod_info, version, files) ==
    LET hits == SelectSeq(files, LAMBDA a : a.path = prod_info.path)
    IN [i \in 1..Len(hits) |->
           [version |-> version, path |-> hits[i].path,
            hash_match |-> prod_info.hash = hits[i].hash]]

\* the entries one archive version adds to the lineage of a production file
LineageIn(prod_info, version, files) ==
    LET hits == SelectSeq(files, LAMBDA a : a.name = prod_info.name)
    IN [i \in 1..Len(hits) |->
           [version |-> version, path |-> hits[i].path,
            hash_match |-> HashMatch(prod_info.hash, hits[i].hash)]]

RECURSIVE LineageOver(_, _, _)
LineageOver(prod_info, versions, arch) ==
    IF versions = <<>> THEN <<>>
    ELSE LineageIn(prod_info, Head(versions), TreeOf(arch, Head(versions)))
         \o LineageOver(prod_info, Tail(versions), arch)

\* fault variant: the key is stored even for an empty entry list
HasLineage_always(entries) == TRUE

\* `if lineage:` keeps only production files with at least one entry
HasLineage(entries) == entries # <<>>

\* the lineage dict after _trace_lineage's loop over the production files in
\* prod, starting from lin.  The assignments of the loop are those for the
\* first part of prod followed by those for the rest, and the assignments for
\* the rest have the effect of an update with the dict they build from an
\* empty one.
RECURSIVE _trace_lineage(_, _, _)
_trace_lineage(lin, prod, arch) ==
    IF prod = <<>> THEN lin
    ELSE IF Len(prod) = 1
    THEN LET versions == Sorted({arch[i].version : i \in 1..Len(arch)})
             entries == LineageOver(Head(prod), versions, arch)
         IN IF HasLineage(entries)
            THEN DictSetKey(lin, [key |-> Head(prod).path, entries |-> entries])
            ELSE lin
    ELSE LET half == Len(prod) \div 2
         IN DictUpdateKey(_trace_lineage(lin, SubSeq(prod, 1, half), arch),
                          _trace_lineage(<<>>, SubSeq(prod, half + 1, Len(prod)), arch))

----------------------------------------------------------------------------
(* Completeness Checker *)

ExpectedSet == Range(expected_dirs) \cup Range(expected_files)

IsPrefixOf(a, b) == Len(a) <= Len(b) /\ SubSeq(b, 1, Len(a)) = a

\* (self.production_dir / name).exists()
ExistsUnderProduction(name) ==
    /\ prodExists
    /\ \/ name \in prodTop
       \/ \E p \in FilesOf(prodTree) : p = name \/ IsPrefixOf(name \o Slash, p)

\* fault variant: an absent directory is reported with the file prefix
DirectoryItem_asFile(dir_name) == FilePrefix \o dir_name

\* f"directory: {dir_name}" and f"file: {file_name}"
DirectoryItem(dir_name) == DirectoryPrefix \o dir_name
FileItem(file_name) == FilePrefix \o file_name

\* `if not (...).exists()`
IsMissing(name) == ~ ExistsUnderProduction(name)

\* the items _find_missing appends to self.missing
_find_missing ==
    LET dirs == SelectSeq(expected_dirs, IsMissing)
        files == SelectSeq(expected_files, IsMissing)
    IN [i \in 1..Len(dirs) |-> DirectoryItem(dirs[i])]
       \o [i \in 1..Len(files) |-> FileItem(files[i])]

----------------------------------------------------------------------------
(* Report Builder *)

DuplicateSampleCap == 50
LineageSampleCap == 20

\* seq[:n]
Take(seq, n) == SubSeq(seq, 1, IF Len(seq) < n THEN Len(seq) ELSE n)

\* fault variant: only the core marker is tested
IsCritical_coreOnly(m) == Contains(Core, m)

\* `"core" in m or "security" in m`
IsCritical(m) == Contains(Core, m) \/ Contains(Security, m)

RECURSIVE SumLen(_)
SumLen(arch) ==
    IF arch = <<>> THEN 0 ELSE Len(Head(arch).files) + SumLen(Tail(arch))

\* fault variant: the summary counts the groups and files of the samples
BuildReport_countsFromSamples(timestamp, prod, arch, dups, lin, miss) ==
    [timestamp |-> timestamp,
     summary |->
        [production_files |-> Len(prod),
         archive_versions |-> Len(arch),
         archive_files |-> SumLen(arch),
         duplicates_found |-> Len(Take(dups, DuplicateSampleCap)),
         files_with_lineage |-> Len(Take(lin, LineageSampleCap)),
         missing_components |-> Len(miss)],
     duplicates |-> Take(dups, DuplicateSampleCap),
     lineage_sample |-> Take(lin, LineageSampleCap),
     missing |-> miss,
     critical_missing |-> SelectSeq(miss, IsCritical)]

\* the report dict of _generate_report; json.dump writes it field by field in
\* this order, so two report.json files are equal exactly when the dicts are
BuildReport(timestamp, prod, arch, dups, lin, miss) ==
    [timestamp |-> timestamp,
     summary |->
        [production_files |-> Len(prod),
         archive_versions |-> Len(arch),
         archive_files |-> SumLen(arch),
         duplicates_found |-> Len(dups),
         files_with_lineage |-> Len(lin),
         missing_components |-> Len(miss)],
     duplicates |-> Take(dups, DuplicateSampleCap),
     lineage_sample |-> Take(lin, LineageSampleCap),
     missing |-> miss,
     critical_missing |-> SelectSeq(miss, IsCritical)]

\* fault variant: any missing item fails the run
ExitStatus_anyMissing(rep) == IF rep.missing # <<>> THEN 1 ELSE 0

\* `1 if report["critical_missing"] else 0`
ExitStatus(rep) == IF rep.critical_missing # <<>> THEN 1 ELSE 0

\* exit status of argparse's usage error and of an uncaught exception
UsageErrorStatus == 2
UncaughtStatus == 1

----------------------------------------------------------------------------
(* The file systems a run is started on *)

ProdTag == ProdRoot

\* the places of the corpus where a run may find a regular file
PathsIn(tag) ==
    IF tag = ProdTag THEN {P_a, P_b, P_pyc}
    ELSE IF tag = V1 THEN {P_a, P_da, P_b}
    ELSE {P_a, P_pyc}

Slots == UNION {{tag} \X PathsIn(tag) : tag \in {ProdTag} \cup Versions}

\* a corpus of two names, each in the production tree and in one archive version
PairSlots == {<<ProdTag, P_a>>, <<ProdTag, P_b>>, <<V1, P_a>>, <<V1, P_b>>}

\* the expected entries present when the corpus holds files
TopScenarios ==
    { ExpectedSet \ {expected_dirs[4], expected_files[2]},
      {} }

\* the expected entries present when the corpus is empty
TopNearExtremes ==
    {T \in SUBSET ExpectedSet :
        Cardinality(T) <= MaxTopDev \/ Cardinality(ExpectedSet \ T) <= MaxTopDev}

TreeFrom(tag, used, fate) ==
    [p \in FilePaths |-> IF <<tag, p>> \in used THEN fate[<<tag, p>>] ELSE Absent]

\* the file system and the arguments of a run
InitInputs ==
    \E used \in {S \in SUBSET Slots : Cardinality(S) <= MaxFiles} \cup {PairSlots} :
    \E fate \in [used -> Fates] :
    \E empties \in SUBSET Versions :
    \E stray \in BOOLEAN :
       LET filled == {v \in Versions : \E p \in FilePaths : <<v, p>> \in used}
           prodUsed == \E p \in FilePaths : <<ProdTag, p>> \in used
       IN /\ empties \cap filled = {}
          /\ \/ Cardinality(used) + Cardinality(empties) + (IF stray THEN 1 ELSE 0) <= MaxFiles
             \/ used = PairSlots /\ empties = {} /\ ~ stray
          /\ prodTree = TreeFrom(ProdTag, used, fate)
          /\ archTree = [v \in Versions |-> TreeFrom(v, used, fate)]
          /\ archDirs = filled \cup empties
          /\ archStray = stray
          /\ archExists \in (IF filled \cup empties = {} /\ ~ stray THEN BOOLEAN ELSE {TRUE})
          /\ prodExists \in (IF prodUsed THEN {TRUE} ELSE BOOLEAN)
          /\ prodTop \in (IF ~ prodExists THEN {{}}
                          ELSE IF used = {} THEN TopNearExtremes
                          ELSE TopScenarios)
          /\ prodDir \in (IF Cardinality(used) \in 1..MaxHiddenFiles /\ empties = {} /\ ~ stray
                          THEN {ProdRoot, HiddenRoot} ELSE {ProdRoot})
          /\ argsOk \in BOOLEAN

\* a JSON object: key -> number
EmptyDict == [k \in {} |-> 0]
NoFile == [exists |-> FALSE, parses |-> FALSE, data |-> EmptyDict]
NoLines == [exists |-> FALSE, lines |-> <<>>]

\* performance_optimizer is not running
PerfIdle ==
    /\ reportFile = NoFile
    /\ directiveWritable = FALSE
    /\ directiveBefore = NoLines
    /\ directive = NoLines
    /\ suggestions = <<>>
    /\ applied = 0
    /\ perfPc = "idle"

\* test_rate_limit is not running
RateIdle ==
    /\ policy = [default_tenant_policy |-> EmptyDict, tenant_overrides |-> EmptyDict]
    /\ tenant_name = "default_tenant_policy"
    /\ request_count = 0
    /\ duration_seconds = 0
    /\ results = <<>>

\* ConfigDiffer is not in use
DifferIdle ==
    /\ config1 = <<>>
    /\ config2 = <<>>
    /\ difference = [added |-> <<>>, removed |-> <<>>, changed |-> <<>>]
    /\ result = <<>>
    /\ diffPc = "idle"

\* no ConfigValidator has been constructed
ValidatorIdle ==
    /\ errors = <<>>
    /\ warnings = <<>>
    /\ validations = <<>>

\* unify_agents is not running
UnifyIdle ==
    /\ present = {}
    /\ ip = 0
    /\ pending = {}
    /\ archive = {}
    /\ copied = {}
    /\ removed = {}
    /\ unifyError = "none"
    /\ unifyExit = 0

\* test_slo_check is not running
SloIdle ==
    /\ slo = <<>>
    /\ metrics = [k \in {} |-> 0]
    /\ checked = [overall_pass |-> FALSE, results |-> <<>>]
    /\ sloPc = "idle"

\* ConfigMigrator is not in use
MigratorIdle ==
    /\ migConfig = <<>>
    /\ migSource = [exists |-> FALSE, suffix |-> ".yaml"]
    /\ from_version = ""
    /\ to_version = ""
    /\ output = ""
    /\ migCall = "idle"
    /\ migrated = [outcome |-> "pending", config |-> <<>>]
    /\ outFile = [exists |-> FALSE, written |-> FALSE, document |-> <<>>]

\* the programs at rest, but for the named one
IdleExcept(tool) ==
    /\ IF tool = "performance_optimizer" THEN TRUE ELSE PerfIdle
    /\ IF tool = "test_rate_limit" THEN TRUE ELSE RateIdle
    /\ IF tool = "ConfigDiffer" THEN TRUE ELSE DifferIdle
    /\ IF tool = "ConfigValidator" THEN TRUE ELSE ValidatorIdle
    /\ IF tool = "unify_agents" THEN TRUE ELSE UnifyIdle
    /\ IF tool = "test_slo_check" THEN TRUE ELSE SloIdle
    /\ IF tool = "ConfigMigrator" THEN TRUE ELSE MigratorIdle

\* the named program leaves the state of the others alone
OthersUnchanged(tool) ==
    /\ IF tool = "performance_optimizer" THEN TRUE ELSE UNCHANGED perfVars
    /\ IF tool = "test_rate_limit" THEN TRUE ELSE UNCHANGED rateVars
    /\ IF tool = "ConfigDiffer" THEN TRUE ELSE UNCHANGED diffVars
    /\ IF tool = "ConfigValidator" THEN TRUE ELSE UNCHANGED validatorVars
    /\ IF tool = "unify_agents" THEN TRUE ELSE UNCHANGED unifyVars
    /\ IF tool = "test_slo_check" THEN TRUE ELSE UNCHANGED sloVars
    /\ IF tool = "ConfigMigrator" THEN TRUE ELSE UNCHANGED migrateVars

\* a process that has not yet run a statement of main()
InitProcess ==
    /\ pc = "parse_args"
    /\ versionQueue = <<>>
    /\ production_files = <<>>
    /\ archive_files = <<>>
    /\ duplicates = <<>>
    /\ lineage = <<>>
    /\ missing = <<>>
    /\ report = NoReport
    /\ error = "none"
    /\ vanished = {}
    /\ hashed = {}
    /\ exitCode = NoExit

Init ==
    /\ InitInputs
    /\ InitProcess
    /\ written = {}
    /\ outDirMade = FALSE
    /\ now = 0
    /\ run = 1
    /\ calls = 1
    /\ previous = NoReport
    /\ IdleExcept("cross_reference")

\* cross_reference is not running
AnalyzerIdle ==
    /\ argsOk = FALSE
    /\ prodDir = ProdRoot
    /\ prodExists = FALSE
    /\ prodTop = {}
    /\ prodTree = [p \in {} |-> Absent]
    /\ archExists = FALSE
    /\ archDirs = {}
    /\ archStray = FALSE
    /\ archTree = [v \in Versions |-> [p \in {} |-> Absent]]
    /\ InitProcess
    /\ written = {}
    /\ outDirMade = FALSE
    /\ now = 0
    /\ run = 1
    /\ calls = 1
    /\ previous = NoReport

----------------------------------------------------------------------------
(* The run of main() *)

\* the run ends with an uncaught exception
Raise(what) ==
    /\ error' = what
    /\ exitCode' = UncaughtStatus
    /\ pc' = "exited"

\* fault variant: main() goes on without the required options
ParseArgs_noCheck ==
    /\ pc = "parse_args"
    /\ pc' = "construct"
    /\ UNCHANGED <<fsVars, versionQueue, production_files, archive_files, duplicates,
                   lineage, missing, report, written, outDirMade, error, vanished,
                   hashed, exitCode>>

\* parser.parse_args(): a missing required option is a usage error
ParseArgs ==
    /\ pc = "parse_args"
    /\ IF argsOk
       THEN /\ pc' = "construct"
            /\ UNCHANGED <<error, exitCode>>
       ELSE /\ pc' = "exited"
            /\ error' = "usage"
            /\ exitCode' = UsageErrorStatus
    /\ UNCHANGED <<fsVars, versionQueue, production_files, archive_files,
                   duplicates, lineage, missing, report, written, outDirMade, vanished, hashed>>

\* CrossReferenceAnalyzer.__init__: mkdir of the output directory, empty results
Construct ==
    /\ pc = "construct"
    /\ \/ /\ outDirMade' = TRUE
          /\ production_files' = <<>>
          /\ archive_files' = <<>>
          /\ duplicates' = <<>>
          /\ lineage' = <<>>
          /\ missing' = <<>>
          /\ pc' = "scan_production"
          /\ UNCHANGED <<error, exitCode>>
       \/ /\ Raise("mkdir")
          /\ UNCHANGED <<outDirMade, production_files, archive_files,
                         duplicates, lineage, missing>>
    /\ UNCHANGED <<fsVars, versionQueue, report, written, vanished, hashed>>

\* files of a tree that reach get_file_info
Hashed(directory, tree) == {p \in FilesOf(tree) : ~ _should_skip(Join(directory, p))}

\* (source, path) pairs of the files of one tree
LocsIn(source, paths) == {[source |-> source, path |-> p] : p \in paths}

\* analyze(): scan of the production tree.  A file removed between is_file()
\* and stat() makes get_file_info raise FileNotFoundError (the files walked
\* before it have been hashed); one removed between stat() and open() has the
\* fate Unreadable.
ScanProduction ==
    /\ pc = "scan_production"
    /\ \/ /\ \E order \in Perms(IF prodExists THEN FilesOf(prodTree) ELSE {}) :
                /\ production_files' = scan_directory(prodExists, prodDir, prodDir, prodTree, order)
                /\ hashed' = hashed \cup LocsIn(Production, HashedBy(order, prodDir))
          /\ pc' = "list_archive"
          /\ UNCHANGED <<error, exitCode, vanished>>
       \/ /\ prodExists
          /\ \E victim \in Hashed(prodDir, prodTree) :
             \E before \in SUBSET (Hashed(prodDir, prodTree) \ {victim}) :
                /\ vanished' = {[source |-> Production, path |-> victim]}
                /\ hashed' = hashed \cup LocsIn(Production, before)
          /\ Raise("stat")
          /\ UNCHANGED production_files
    /\ UNCHANGED <<fsVars, versionQueue, archive_files, duplicates, lineage,
                   missing, report, written, outDirMade>>

\* fault variant: the analysis starts after the first entry of the archive root
AfterEntry_stopEarly(queue) == "find_duplicates"

\* the `for` loop over the archive root's entries goes on while entries are left
AfterEntry(queue) == IF queue = <<>> THEN "find_duplicates" ELSE "scan_archive"

\* fault variant: iterdir() without the exists() guard raises on a missing root
ListArchive_noExistsCheck ==
    /\ pc = "list_archive"
    /\ IF archExists
       THEN /\ versionQueue' = Sorted(archDirs \cup (IF archStray THEN {StrayName} ELSE {}))
            /\ pc' = AfterEntry(versionQueue')
            /\ UNCHANGED <<error, exitCode>>
       ELSE /\ Raise("iterdir")
            /\ UNCHANGED versionQueue
    /\ UNCHANGED <<fsVars, production_files, archive_files, duplicates, lineage,
                   missing, report, written, outDirMade, vanished, hashed>>

\* analyze(): `if self.archive_dir.exists(): for ... in sorted(iterdir())`
ListArchive ==
    /\ pc = "list_archive"
    /\ versionQueue' = IF archExists
                       THEN Sorted(archDirs \cup (IF archStray THEN {StrayName} ELSE {}))
                       ELSE <<>>
    /\ pc' = AfterEntry(versionQueue')
    /\ UNCHANGED <<fsVars, production_files, archive_files, duplicates, lineage,
                   missing, report, written, outDirMade, error, vanished, hashed, exitCode>>

\* self.archive_files[version] = ... on the defaultdict kept as a sequence
SetVersion(arch, version, files) ==
    IF \E i \in 1..Len(arch) : arch[i].version = version
    THEN [i \in 1..Len(arch) |-> IF arch[i].version = version
                                 THEN [version |-> version, files |-> files] ELSE arch[i]]
    ELSE Append(arch, [version |-> version, files |-> files])

\* analyze(): one iteration of the loop over the archive root's entries
ScanArchiveVersion ==
    /\ pc = "scan_archive"
    /\ versionQueue # <<>>
    /\ LET version == Head(versionQueue)
           directory == Join(ArchRoot, version)
       IN \/ /\ version \in archDirs
             /\ \E order \in Perms(FilesOf(archTree[version])) :
                   /\ archive_files' = SetVersion(archive_files, version,
                         scan_directory(TRUE, directory, directory, archTree[version], order))
                   /\ hashed' = hashed \cup LocsIn(version, HashedBy(order, directory))
             /\ versionQueue' = Tail(versionQueue)
             /\ pc' = AfterEntry(versionQueue')
             /\ UNCHANGED <<error, exitCode, vanished>>
          \/ /\ version \notin archDirs
             /\ versionQueue' = Tail(versionQueue)
             /\ pc' = AfterEntry(versionQueue')
             /\ UNCHANGED <<archive_files, error, exitCode, vanished, hashed>>
          \/ /\ version \in archDirs
             /\ \E victim \in Hashed(directory, archTree[version]) :
                \E before \in SUBSET (Hashed(directory, archTree[version]) \ {victim}) :
                   /\ vanished' = {[source |-> version, path |-> victim]}
                   /\ hashed' = hashed \cup LocsIn(version, before)
             /\ Raise("stat")
             /\ UNCHANGED <<archive_files, versionQueue>>
    /\ UNCHANGED <<fsVars, production_files, duplicates, lineage, missing,
                   report, written, outDirMade>>

FindDuplicates ==
    /\ pc = "find_duplicates"
    /\ duplicates' = duplicates \o _find_duplicates(production_files, archive_files)
    /\ pc' = "trace_lineage"
    /\ UNCHANGED <<fsVars, versionQueue, production_files, archive_files, lineage,
                   missing, report, written, outDirMade, error, vanished, hashed, exitCode>>

TraceLineage ==
    /\ pc = "trace_lineage"
    /\ lineage' = _trace_lineage(lineage, production_files, archive_files)
    /\ pc' = "find_missing"
    /\ UNCHANGED <<fsVars, versionQueue, production_files, archive_files, duplicates,
                   missing, report, written, outDirMade, error, vanished, hashed, exitCode>>

FindMissing ==
    /\ pc = "find_missing"
    /\ missing' = missing \o _find_missing
    /\ pc' = "generate_report"
    /\ UNCHANGED <<fsVars, versionQueue, production_files, archive_files, duplicates,
                   lineage, report, written, outDirMade, error, vanished, hashed, exitCode>>

\* _generate_report: build the dict, write report.json, then report.md
GenerateReport ==
    /\ pc = "generate_report"
    /\ \/ /\ report' = BuildReport(now, production_files, archive_files, duplicates, lineage, missing)
          /\ written' = {"report.json", "report.md"}
          /\ pc' = "exit"
          /\ UNCHANGED <<error, exitCode>>
       \/ /\ Raise("write_json")
          /\ UNCHANGED <<report, written>>
       \/ /\ Raise("write_md")
          /\ written' = {"report.json"}
          /\ UNCHANGED report
    /\ UNCHANGED <<fsVars, versionQueue, production_files, archive_files, duplicates,
                   lineage, missing, outDirMade, vanished, hashed>>

\* main(): sys.exit(1 if report["critical_missing"] else 0)
Exit ==
    /\ pc = "exit"
    /\ exitCode' = ExitStatus(report)
    /\ pc' = "exited"
    /\ UNCHANGED <<fsVars, versionQueue, production_files, archive_files, duplicates,
                   lineage, missing, report, written, outDirMade, error, vanished, hashed>>

Next ==
    \/ ParseArgs
    \/ Construct
    \/ ScanProduction
    \/ ListArchive
    \/ ScanArchiveVersion
    \/ FindDuplicates
    \/ TraceLineage
    \/ FindMissing
    \/ GenerateReport
    \/ Exit

Spec == Init /\ [][Next]_vars

TypeOK ==
    /\ pc \in {"parse_args", "construct", "scan_production", "list_archive", "scan_archive",
               "find_duplicates", "trace_lineage", "find_missing", "generate_report",
               "exit", "exited"}
    /\ exitCode \in {NoExit, 0, 1, 2}
    /\ error \in {"none", "usage", "mkdir", "stat", "write_json", "write_md"}

----------------------------------------------------------------------------
(* The analyzer run again on the same directories *)

MaxRuns == 2   \* runs of main() on one file system

\* a later run of main(): a new process with the same arguments, started when
\* the run before it has exited; the input trees are as they were, the output
\* directory keeps what was written, the clock has advanced
Rerun ==
    /\ pc = "exited"
    /\ run < MaxRuns
    /\ run' = run + 1
    /\ now' = now + 1
    /\ previous' = report
    /\ pc' = "parse_args"
    /\ versionQueue' = <<>>
    /\ production_files' = <<>>
    /\ archive_files' = <<>>
    /\ duplicates' = <<>>
    /\ lineage' = <<>>
    /\ missing' = <<>>
    /\ report' = NoReport
    /\ error' = "none"
    /\ vanished' = {}
    /\ hashed' = {}
    /\ exitCode' = NoExit
    /\ UNCHANGED <<argsOk, prodDir, prodExists, prodTop, prodTree, archExists, archDirs,
                   archStray, archTree, written, outDirMade, calls, toolVars>>

RerunNext ==
    \/ Next
    \/ Rerun

RerunSpec == Init /\ [][RerunNext]_vars

----------------------------------------------------------------------------
(* analyze() called again on the same instance *)

MaxAnalyzeCalls == 2   \* calls of analyze() on one instance

\* analyzer.analyze() is called once more when the preceding call has returned its
\* report: the instance keeps its fields, the directories are as they were
AnalyzeAgain ==
    /\ pc = "exit"
    /\ calls < MaxAnalyzeCalls
    /\ calls' = calls + 1
    /\ now' = now + 1
    /\ previous' = report
    /\ report' = NoReport
    /\ pc' = "scan_production"
    /\ UNCHANGED <<argsOk, prodDir, run, prodExists, prodTop, prodTree, archExists, archDirs,
                   archStray, archTree, versionQueue, production_files, archive_files,
                   duplicates, lineage, missing, written, outDirMade, error, vanished,
                   hashed, exitCode, toolVars>>

AnalyzeAgainNext ==
    \/ Next
    \/ AnalyzeAgain

AnalyzeAgainSpec == Init /\ [][AnalyzeAgainNext]_vars

----------------------------------------------------------------------------
(* The analysis of a corpus larger than the report's samples *)

MaxLargePairs == 51   \* pairs of files with one content in the large corpus
MaxLargeDiff == 2     \* files of the large corpus kept in the archive with another content

Digit == <<"0", "1", "2", "3", "4", "5", "6", "7", "8", "9">>

\* file contents of the large corpus, all different
LargeContents ==
    <<
       "c01", "c02", "c03", "c04", "c05", "c06", "c07", "c08", "c09", "c10",
       "c11", "c12", "c13", "c14", "c15", "c16", "c17", "c18", "c19", "c20",
       "c21", "c22", "c23", "c24", "c25", "c26", "c27", "c28", "c29", "c30",
       "c31", "c32", "c33", "c34", "c35", "c36", "c37", "c38", "c39", "c40",
       "c41", "c42", "c43", "c44", "c45", "c46", "c47", "c48", "c49", "c50",
       "c51", "c52", "c53", "c54", "c55", "c56", "c57", "c58", "c59", "c60">>

\* the i-th file name that starts with the letter given
Numbered(letter, i) == <<letter, Digit[(i \div 10) + 1], Digit[(i % 10) + 1]>>

Reverse(s) == [i \in 1..Len(s) |-> s[Len(s) + 1 - i]]

\* content of the file p of the large corpus: the pair's for f and h files, and
\* for a g file one for the production copy (older = 0) and one for the archive's
LargeContent(p, older) ==
    LET i == CHOOSE k \in 0..99 : Numbered(p[1], k) = p
    IN IF p[1] = "g" THEN LargeContents[Len(LargeContents) + 1 + older - 2 * i]
       ELSE LargeContents[i]

\* the production files in an order a walk yields them: n files f01.., their
\* twins h01.. when the pairs are inside production, and l files g01.. whose
\* archive copy differs
LargeProdWalk(n, twin, l) ==
    [i \in 1..n |-> Numbered("f", i)]
    \o (IF twin THEN [i \in 1..n |-> Numbered("h", i)] ELSE <<>>)
    \o [j \in 1..l |-> Numbered("g", j)]

\* the files of archive version v1: the copies of f01.. when the pairs span
\* production and archive, and the older g01..
LargeArchWalk(n, twin, l) ==
    (IF twin THEN <<>> ELSE [i \in 1..n |-> Numbered("f", i)])
    \o [j \in 1..l |-> Numbered("g", j)]

\* the state analyze() is in when both scans of a large corpus have returned
LargeInit ==
    /\ \E n \in 0..MaxLargePairs, twin \in BOOLEAN, l \in 0..MaxLargeDiff, backwards \in BOOLEAN :
          LET walk(order) == IF backwards THEN Reverse(order) ELSE order
              prodWalk == walk(LargeProdWalk(n, twin, l))
              archWalk == walk(LargeArchWalk(n, twin, l))
              directory == Join(ArchRoot, V1)
          IN /\ prodTree = [p \in Range(prodWalk) |-> LargeContent(p, 0)]
             /\ archTree = [v \in Versions |->
                               IF v = V1 THEN [p \in Range(archWalk) |-> LargeContent(p, 1)]
                               ELSE [p \in {} |-> Absent]]
             /\ production_files = scan_directory(TRUE, ProdRoot, ProdRoot, prodTree, prodWalk)
             /\ archive_files = SetVersion(<<>>, V1,
                   scan_directory(TRUE, directory, directory, archTree[V1], archWalk))
             /\ hashed = LocsIn(Production, HashedBy(prodWalk, ProdRoot))
                         \cup LocsIn(V1, HashedBy(archWalk, directory))
    /\ prodTop \in TopScenarios
    /\ argsOk = TRUE
    /\ prodDir = ProdRoot
    /\ prodExists = TRUE
    /\ archExists = TRUE
    /\ archDirs = {V1}
    /\ archStray = FALSE
    /\ versionQueue = <<>>
    /\ pc = "find_duplicates"
    /\ duplicates = <<>>
    /\ lineage = <<>>
    /\ missing = <<>>
    /\ report = NoReport
    /\ error = "none"
    /\ vanished = {}
    /\ exitCode = NoExit
    /\ written = {}
    /\ outDirMade = TRUE
    /\ now = 0
    /\ run = 1
    /\ calls = 1
    /\ previous = NoReport
    /\ IdleExcept("cross_reference")

\* analyze() from the end of the scans, then the exit of main()
LargeNext ==
    \/ FindDuplicates
    \/ TraceLineage
    \/ FindMissing
    \/ GenerateReport
    \/ Exit

LargeSpec == LargeInit /\ [][LargeNext]_vars

----------------------------------------------------------------------------
(* Vocabulary of the properties *)

\* the run was not ended by an exception before the named stage finished
Reached(stages) ==
    \/ pc \in stages
    \/ pc = "exited" /\ error \in {"none", "write_json", "write_md"}

AfterDuplicates == Reached({"trace_lineage", "find_missing", "generate_report", "exit"})
AfterLineage == Reached({"find_missing", "generate_report", "exit"})
AfterMissing == Reached({"generate_report", "exit"})
HasReport == report # NoReport

\* every scanned record with its source label
RecordsOf(source, files) ==
    {[source |-> source, path |-> files[i].path, name |-> files[i].name, hash |-> files[i].hash] :
        i \in 1..Len(files)}

ArchiveRecords ==
    UNION {RecordsOf(archive_files[i].version, archive_files[i].files) : i \in 1..Len(archive_files)}

AllRecords == RecordsOf(Production, production_files) \cup ArchiveRecords

Loc(r) == [source |-> r.source, path |-> r.path]

\* the (source_label, path) pairs whose record has digest d
LocsWithDigest(d) == {Loc(r) : r \in {x \in AllRecords : x.hash = d}}

\* indices of the duplicate groups that stand for digest d
GroupsFor(d) == {i \in 1..Len(duplicates) : duplicates[i].hash = d[1]}

GroupedLocs == UNION {Range(duplicates[i].locations) : i \in 1..Len(duplicates)}

\* files of the corpus that the scanner does not exclude and whose content
\* cannot be read, as (source, path)
UnreadableLocs ==
    {[source |-> Production, path |-> p] :
        p \in {q \in Hashed(prodDir, prodTree) : prodTree[q] = Unreadable}}
    \cup UNION {{[source |-> v, path |-> p] :
                    p \in {q \in Hashed(Join(ArchRoot, v), archTree[v]) : archTree[v][q] = Unreadable}} :
                v \in Versions}

----------------------------------------------------------------------------
(* C1: whenever the run ends with a report, the exit code is 0 if and only *)
(* if the report's critical_missing list is empty and 1 otherwise; nothing *)
(* else in the report (duplicates, non-critical missing items) matters.    *)
C1_ExitCodeIffCritical ==
    (pc = "exited" /\ HasReport) =>
        /\ exitCode \in {0, 1}
        /\ (exitCode = 0) <=> (report.critical_missing = <<>>)

\* a run that exits 0 although it found duplicates and non-critical missing items
C1_Witness ==
    /\ pc = "exited"
    /\ HasReport
    /\ exitCode = 0
    /\ report.summary.duplicates_found > 0
    /\ report.missing # <<>>

(* C2: after _find_duplicates, every non-empty digest carried by two or    *)
(* more records has exactly one group, whose locations are exactly the     *)
(* (source, path) pairs with that digest, each once; a digest carried by   *)
(* one record has no group.                                                *)
C2_OneGroupPerSharedDigest ==
    AfterDuplicates =>
        \A d \in {r.hash : r \in AllRecords} \ {EmptyDigest} :
            IF Cardinality(LocsWithDigest(d)) >= 2
            THEN /\ Cardinality(GroupsFor(d)) = 1
                 /\ \A i \in GroupsFor(d) :
                       /\ Range(duplicates[i].locations) = LocsWithDigest(d)
                       /\ Len(duplicates[i].locations) = Cardinality(LocsWithDigest(d))
            ELSE /\ GroupsFor(d) = {}
                 /\ LocsWithDigest(d) \cap GroupedLocs = {}

\* two trees with one file each of identical bytes: one group with both locations,
\* next to a third file whose digest nobody shares
C2_Witness ==
    /\ AfterDuplicates
    /\ Len(production_files) = 1
    /\ Len(archive_files) = 2
    /\ Len(archive_files[1].files) = 1
    /\ Len(archive_files[2].files) = 1
    /\ Len(duplicates) = 1
    /\ Len(duplicates[1].locations) = 2
    /\ duplicates[1].locations[1].source = Production

(* C3: a file whose content cannot be read never aborts the run; it is     *)
(* recorded in its tree with an empty digest and is in no duplicate group. *)
C3_UnreadableNeverAborts ==
    /\ \A l \in UnreadableLocs \cup vanished : ~ (error = "stat" /\ l \in vanished)
    /\ AfterDuplicates =>
          \A l \in UnreadableLocs :
              /\ \E r \in AllRecords : Loc(r) = l /\ r.hash = EmptyDigest
              /\ l \notin GroupedLocs

(* C4: a lineage entry never has hash_match true when the production       *)
(* file's digest or the archive file's digest is empty.                    *)
C4_EmptyDigestNeverMatches ==
    AfterLineage =>
        \A k \in 1..Len(lineage) : \A e \in Range(lineage[k].entries) :
            \A p \in RecordsOf(Production, production_files) :
            \A a \in ArchiveRecords :
                (p.path = lineage[k].key /\ a.source = e.version /\ a.path = e.path
                 /\ (p.hash = EmptyDigest \/ a.hash = EmptyDigest))
                    => ~ e.hash_match


\* production records and the archive records that carry the same file name
ProductionRecords == RecordsOf(Production, production_files)
SameNamed(p) == {a \in ArchiveRecords : a.name = p.name}

\* the entry list stored under a production path, <<>> when the key is absent
EntriesOf(path) ==
    IF \E k \in 1..Len(lineage) : lineage[k].key = path
    THEN lineage[CHOOSE k \in 1..Len(lineage) : lineage[k].key = path].entries
    ELSE <<>>

LineageKeys == {lineage[k].key : k \in 1..Len(lineage)}

C6_LineageByName ==
    AfterLineage =>
        /\ \A p \in ProductionRecords : \A a \in SameNamed(p) :
              \E e \in Range(EntriesOf(p.path)) :
                  /\ e.version = a.source
                  /\ e.path = a.path
                  /\ e.hash_match <=> (a.hash = p.hash)
        /\ \A p \in ProductionRecords : \A e \in Range(EntriesOf(p.path)) :
              \E a \in SameNamed(p) : a.source = e.version /\ a.path = e.path
        /\ LineageKeys \subseteq {p.path : p \in ProductionRecords}

\* production {a.txt: X}, v1 {a.txt: X}, v2 {a.txt: Y}
C6_Witness ==
    /\ AfterLineage
    /\ prodTree[P_a] = "X" /\ archTree[V1][P_a] = "X" /\ archTree[V2][P_a] = "Y"
    /\ lineage = << [key |-> P_a,
                     entries |-> << [version |-> V1, path |-> P_a, hash_match |-> TRUE],
                                    [version |-> V2, path |-> P_a, hash_match |-> FALSE] >>] >>

(* C7: the lineage map has a key exactly for the production files that     *)
(* have a same-named archive file, every key has a non-empty entry list,   *)
(* and files_with_lineage counts exactly those production files.           *)
C7_NoLineageMeansAbsent ==
    AfterLineage =>
        /\ \A k \in 1..Len(lineage) : lineage[k].entries # <<>>
        /\ \A k, n \in 1..Len(lineage) : lineage[k].key = lineage[n].key => k = n
        /\ LineageKeys = {p.path : p \in {q \in ProductionRecords : SameNamed(q) # {}}}
        /\ HasReport =>
              report.summary.files_with_lineage
                 = Cardinality({q \in ProductionRecords : SameNamed(q) # {}})

\* two production files, only one of them with a same-named archive file
C7_Witness ==
    /\ HasReport
    /\ Len(production_files) = 2
    /\ Len(lineage) = 1
    /\ report.summary.files_with_lineage = 1

\* number of positions of a list holding x
Count(seq, x) == Cardinality({i \in 1..Len(seq) : seq[i] = x})

(* C8: after _find_missing the list holds "directory: X" exactly once for  *)
(* every expected directory absent under the production root, "file: X"    *)
(* exactly once for every absent expected file, and nothing else; with     *)
(* only security absent the single item "directory: security" is critical. *)
C8_OneItemPerAbsence ==
    AfterMissing =>
        /\ \A x \in Range(expected_dirs) :
              Count(missing, DirectoryPrefix \o x) = IF ExistsUnderProduction(x) THEN 0 ELSE 1
        /\ \A x \in Range(expected_files) :
              Count(missing, FilePrefix \o x) = IF ExistsUnderProduction(x) THEN 0 ELSE 1
        /\ Len(missing) = Cardinality({x \in ExpectedSet : ~ ExistsUnderProduction(x)})
        /\ (HasReport /\ prodTop = ExpectedSet \ {Security}) =>
              /\ report.missing = << DirectoryPrefix \o Security >>
              /\ report.critical_missing = << DirectoryPrefix \o Security >>

\* a production tree containing core/src but not security
C8_Witness ==
    /\ HasReport
    /\ expected_dirs[1] \in prodTop
    /\ Security \notin prodTop
    /\ missing = << DirectoryPrefix \o Security >>
    /\ report.critical_missing = missing

\* pat occurs in s as a contiguous run of characters
Occurs(pat, s) ==
    \E i \in 1..(Len(s) - Len(pat) + 1) : \A k \in 1..Len(pat) : s[i + k - 1] = pat[k]

(* C9: critical_missing is the sub-list of the report's missing list, in   *)
(* the same order, of the descriptors in which "core" or "security"        *)
(* occurs; the report's missing list is the analyzer's.                    *)
C9_CriticalIsMarkedSublist ==
    HasReport =>
        /\ report.missing = missing
        /\ report.critical_missing =
              SelectSeq(report.missing, LAMBDA m : Occurs(Core, m) \/ Occurs(Security, m))
        /\ Range(report.critical_missing) \subseteq Range(report.missing)

\* a report with both critical and non-critical missing items, security among them
C9_Witness ==
    /\ HasReport
    /\ DirectoryPrefix \o Security \in Range(report.critical_missing)
    /\ Len(report.critical_missing) < Len(report.missing)

\* empty production tree, no archive root, every expected entry absent
EmptyScenario ==
    /\ FilesOf(prodTree) = {}
    /\ prodTop = {}
    /\ ~ archExists

(* C10: on an empty production tree with a non-existent archive root no    *)
(* step of the analysis raises; a run whose arguments and output directory *)
(* are usable ends with a written report whose critical_missing is        *)
(* non-empty and with exit code 1, and no run exits 0.                     *)
C10_EmptyInputsExitOne ==
    EmptyScenario =>
        /\ error \in {"none", "usage", "mkdir", "write_json", "write_md"}
        /\ pc # "exited" => ENABLED Next
        /\ pc = "exited" => exitCode # 0
        /\ (pc = "exited" /\ error = "none") =>
              /\ HasReport
              /\ written = {"report.json", "report.md"}
              /\ Len(report.missing) = Len(expected_dirs) + Len(expected_files)
              /\ report.critical_missing # <<>>
              /\ exitCode = 1

\* the scenario's run has ended with its report
C10_Witness ==
    /\ EmptyScenario
    /\ prodExists
    /\ pc = "exited"
    /\ HasReport
    /\ report.summary.production_files = 0
    /\ report.summary.archive_versions = 0
    /\ exitCode = 1

----------------------------------------------------------------------------
(* C11: in every report the duplicates sample holds at most 50 groups and  *)
(* the lineage sample at most 20 production files, each sample is a prefix *)
(* of the full result, and the summary counts are exact: duplicates_found  *)
(* is the number of digests shared by two or more locations and            *)
(* files_with_lineage the number of production files that have a           *)
(* same-named archive file, also beyond 50 and 20.                         *)

\* the digests that two or more scanned locations share
SharedDigests ==
    {d \in {r.hash : r \in AllRecords} : Truthy(d) /\ Cardinality(LocsWithDigest(d)) >= 2}

\* the production paths some archive file has the name of
CoveredPaths == {p.path : p \in {q \in ProductionRecords : SameNamed(q) # {}}}

C11_SamplesCappedCountsExact ==
    HasReport =>
        /\ Len(report.duplicates) <= DuplicateSampleCap
        /\ Len(report.lineage_sample) <= LineageSampleCap
        /\ IsPrefixOf(report.duplicates, duplicates)
        /\ IsPrefixOf(report.lineage_sample, lineage)
        /\ report.summary.duplicates_found = Len(duplicates)
        /\ report.summary.duplicates_found = Cardinality(SharedDigests)
        /\ report.summary.files_with_lineage = Len(lineage)
        /\ report.summary.files_with_lineage = Cardinality(CoveredPaths)

\* a report whose totals exceed both caps and whose samples are cut at them
C11_Witness ==
    /\ HasReport
    /\ report.summary.duplicates_found > DuplicateSampleCap
    /\ report.summary.files_with_lineage > LineageSampleCap
    /\ Len(report.duplicates) = DuplicateSampleCap
    /\ Len(report.lineage_sample) = LineageSampleCap

----------------------------------------------------------------------------
(* C12: idempotence: when the analyzer is run twice on unchanged           *)
(* production and archive inputs, the report.json of the second run has    *)
(* the content of the report.json of the first.                            *)
C12_RerunByteIdentical ==
    (run > 1 /\ HasReport /\ previous # NoReport) => report = previous

----------------------------------------------------------------------------
(* C13: for one and the same set of files in the production and archive    *)
(* trees, the sequence of duplicate groups is the same whatever order the  *)
(* directory walk enumerates the files of a tree in: it is the sequence    *)
(* obtained with one fixed walk order per tree.                            *)

\* one walk order of the set S, the same wherever it is asked for
ReferenceWalk(S) == CHOOSE f \in Perms(S) : TRUE

\* the groups found when every tree that was scanned is walked in its reference order
ReferenceGroups ==
    _find_duplicates(
        scan_directory(prodExists, prodDir, prodDir, prodTree,
                       ReferenceWalk(IF prodExists THEN FilesOf(prodTree) ELSE {})),
        [i \in 1..Len(archive_files) |->
            LET version == archive_files[i].version
                directory == Join(ArchRoot, version)
            IN [version |-> version,
                files |-> scan_directory(TRUE, directory, directory, archTree[version],
                                         ReferenceWalk(FilesOf(archTree[version])))]])

\* the digests of a list of groups, in the order of the list
GroupDigests(groups) == [i \in 1..Len(groups) |-> groups[i].hash]

C13_GroupOrderIndependentOfWalk ==
    AfterDuplicates => GroupDigests(duplicates) = GroupDigests(ReferenceGroups)

----------------------------------------------------------------------------
(* C14: an absent input is not fatal.  The scan of a production root that  *)
(* does not exist raises nothing and returns an empty tree.  When the      *)
(* archive root does not exist nothing is scanned for it and nothing       *)
(* raises on its account, and the run goes on: no duplicate group has an   *)
(* archive location, the lineage map is empty, and a run that no other     *)
(* failure ends finishes with report.json and report.md written and a      *)
(* summary of zero archive versions and zero archive files.                *)
C14_AbsentInputNonFatal ==
    /\ ~ prodExists =>
          /\ production_files = <<>>
          /\ \A l \in vanished \cup hashed : l.source # Production
          /\ pc = "scan_production" => ENABLED ScanProduction
    /\ ~ archExists =>
          /\ pc # "scan_archive"
          /\ versionQueue = <<>>
          /\ archive_files = <<>>
          /\ \A l \in vanished \cup hashed : l.source = Production
          /\ error \in {"none", "usage", "mkdir", "stat", "write_json", "write_md"}
          /\ pc # "exited" => ENABLED Next
          /\ \A i \in 1..Len(duplicates) :
                \A l \in Range(duplicates[i].locations) : l.source = Production
          /\ lineage = <<>>
          /\ (pc = "exited" /\ error = "none") =>
                /\ HasReport
                /\ written = {"report.json", "report.md"}
                /\ report.summary.archive_versions = 0
                /\ report.summary.archive_files = 0
                /\ report.lineage_sample = <<>>
                /\ report.summary.files_with_lineage = 0

\* a run without archive root that found duplicates inside production and
\* wrote its report
C14_Witness ==
    /\ ~ archExists
    /\ prodExists
    /\ pc = "exited"
    /\ HasReport
    /\ written = {"report.json", "report.md"}
    /\ report.summary.production_files > 1
    /\ report.summary.duplicates_found > 0

----------------------------------------------------------------------------
(* C15: a run whose output directory, report.json or report.md could not   *)
(* be created or written never exits with 0, and its exit status is not    *)
(* the status 1 that a run with critical missing items exits with.         *)

\* the exit status main() gives to a report with critical missing items
CriticalFindingsStatus ==
    ExitStatus([critical_missing |-> <<DirectoryItem(expected_dirs[1])>>])

C15_WriteFailureDistinctExit ==
    (pc = "exited" /\ error \in {"mkdir", "write_json", "write_md"}) =>
        /\ exitCode # 0
        /\ exitCode # CriticalFindingsStatus

----------------------------------------------------------------------------
(* C16: when a required command-line option is missing the run fails       *)
(* before any scanning: it ends in parse_args with a usage error and a     *)
(* non-zero status, no directory has been scanned, no file hashed, no      *)
(* output directory created and no report built or written.                *)
C16_UsageErrorBeforeScanning ==
    ~ argsOk =>
        /\ pc \in {"parse_args", "exited"}
        /\ production_files = <<>>
        /\ archive_files = <<>>
        /\ versionQueue = <<>>
        /\ hashed = {}
        /\ vanished = {}
        /\ ~ outDirMade
        /\ written = {}
        /\ report = NoReport
        /\ pc = "exited" => (error = "usage" /\ exitCode = UsageErrorStatus)

\* a run without its options has ended although there were files to scan
C16_Witness ==
    /\ ~ argsOk
    /\ pc = "exited"
    /\ exitCode # 0
    /\ prodExists
    /\ Hashed(prodDir, prodTree) # {}
    /\ archDirs # {}

----------------------------------------------------------------------------
(* C17: exclusion is decided before hashing.  A file whose path string as  *)
(* the scanner enumerates it (root prefix included) contains one of the    *)
(* patterns .git, __pycache__, .pyc, node_modules, target/debug,           *)
(* target/release, .DS_Store is never hashed and is in no tree; when the   *)
(* scan of a root has returned, every other regular file under the root    *)
(* has been hashed and is in the tree exactly once.                        *)

ExclusionPatterns ==
    { <<".","g","i","t">>,
      <<"_","_","p","y","c","a","c","h","e","_","_">>,
      <<".","p","y","c">>,
      <<"n","o","d","e","_","m","o","d","u","l","e","s">>,
      <<"t","a","r","g","e","t","/","d","e","b","u","g">>,
      <<"t","a","r","g","e","t","/","r","e","l","e","a","s","e">>,
      <<".","D","S","_","S","t","o","r","e">> }

\* the root the scanner is given for a source label
RootOf(source) == IF source = Production THEN prodDir ELSE Join(ArchRoot, source)

\* the path string of a location as rglob yields it
FullPath(l) == Join(RootOf(l.source), l.path)

Excluded(l) == \E pat \in ExclusionPatterns : Contains(pat, FullPath(l))

\* the regular files below the root of a source label, as locations
FilesUnder(source) ==
    LocsIn(source, IF source = Production
                   THEN (IF prodExists THEN FilesOf(prodTree) ELSE {})
                   ELSE FilesOf(archTree[source]))

\* the scan of the production root has returned
ProductionScanned ==
    \/ pc \in {"list_archive", "scan_archive", "find_duplicates", "trace_lineage",
               "find_missing", "generate_report", "exit"}
    \/ pc = "exited" /\ error \in {"none", "write_json", "write_md"}
    \/ pc = "exited" /\ error = "stat" /\ \A l \in vanished : l.source # Production

\* the tree returned for a source label holds exactly the locations in locs, each once
TreeHoldsOnce(source, files, locs) ==
    /\ {[source |-> source, path |-> files[i].path] : i \in 1..Len(files)} = locs
    /\ Len(files) = Cardinality(locs)

C17_ExcludedNeverHashed ==
    LET excluded == {l \in UNION {FilesUnder(s) : s \in {Production} \cup Versions} : Excluded(l)}
    IN /\ hashed \cap excluded = {}
       /\ {Loc(r) : r \in AllRecords} \cap excluded = {}
       /\ ProductionScanned =>
             LET kept == FilesUnder(Production) \ excluded
             IN /\ TreeHoldsOnce(Production, production_files, kept)
                /\ kept \subseteq hashed
       /\ \A i \in 1..Len(archive_files) :
             LET kept == FilesUnder(archive_files[i].version) \ excluded
             IN /\ TreeHoldsOnce(archive_files[i].version, archive_files[i].files, kept)
                /\ kept \subseteq hashed

\* a production root under .github whose file is left out because of the root
\* prefix alone, next to an archive version whose file of the same name is
\* hashed and kept
C17_Witness ==
    /\ prodDir = HiddenRoot
    /\ prodExists
    /\ prodTree[P_a] \in Contents
    /\ archTree[V1][P_a] \in Contents
    /\ pc = "find_duplicates"
    /\ production_files = <<>>
    /\ Len(archive_files) = 1
    /\ Len(archive_files[1].files) = 1
    /\ hashed = {[source |-> V1, path |-> P_a]}

----------------------------------------------------------------------------
(* C18: within every duplicate group the locations are in corpus scan      *)
(* order: no archive location stands before a production location, and of *)
(* two archive locations the later one never has the lexicographically     *)
(* smaller version label.                                                  *)
C18_LocationsInScanOrder ==
    \A g \in 1..Len(duplicates) :
        LET locs == duplicates[g].locations
        IN \A i, j \in 1..Len(locs) :
              i < j =>
                 /\ locs[j].source = Production => locs[i].source = Production
                 /\ (locs[i].source # Production /\ locs[j].source # Production) =>
                       ~ StrLess(locs[j].source, locs[i].source)

\* a group with a production location and locations of both archive versions
C18_Witness ==
    \E g \in 1..Len(duplicates) :
        LET locs == duplicates[g].locations
        IN /\ Len(locs) = 3
           /\ locs[1].source = Production
           /\ locs[2].source = V1
           /\ locs[3].source = V2

----------------------------------------------------------------------------
(* C19: scan results are consumed only after every scan has completed.     *)
(* Whenever duplicate detection, lineage tracing, the search for missing   *)
(* entries or report generation is about to run or has produced a result,  *)
(* the production tree and the tree of every version directory of the      *)
(* archive root have been scanned in full and no entry of the archive root *)
(* is left to visit; and from the moment duplicate detection can begin no  *)
(* step changes production_files or archive_files.                         *)

AnalysisStages == {"find_duplicates", "trace_lineage", "find_missing", "generate_report", "exit"}

\* a result of the analysis exists
AnalysisBegun ==
    \/ pc \in AnalysisStages
    \/ duplicates # <<>>
    \/ lineage # <<>>
    \/ missing # <<>>
    \/ report # NoReport

\* every tree of the corpus has been scanned to its end
AllScansComplete ==
    /\ ProductionScanned
    /\ TreeHoldsOnce(Production, production_files,
                     {l \in FilesUnder(Production) : ~ Excluded(l)})
    /\ versionQueue = <<>>
    /\ {archive_files[i].version : i \in 1..Len(archive_files)}
          = (IF archExists THEN archDirs ELSE {})
    /\ \A i \in 1..Len(archive_files) :
          TreeHoldsOnce(archive_files[i].version, archive_files[i].files,
                        {l \in FilesUnder(archive_files[i].version) : ~ Excluded(l)})

\* a step taken once duplicate detection can begin leaves the trees as they are
TreesKept ==
    pc \in AnalysisStages =>
        (production_files' = production_files /\ archive_files' = archive_files)

C19_ScansBeforeAnalysis ==
    /\ [](AnalysisBegun => AllScansComplete)
    /\ [][TreesKept]_vars

\* duplicate detection has run on a production tree and two archive version trees
C19_Witness ==
    /\ pc = "trace_lineage"
    /\ production_files # <<>>
    /\ Len(archive_files) = 2
    /\ archive_files[1].files # <<>>
    /\ archive_files[2].files # <<>>
    /\ duplicates # <<>>

----------------------------------------------------------------------------
(* C20: in the result of one analysis run every duplicate group has at     *)
(* least 2 locations, no two groups stand for the same digest, and no      *)
(* (source_label, path) location appears in more than one group (nor       *)
(* twice in one group).                                                    *)
C20_GroupsDisjoint ==
    /\ \A g \in 1..Len(duplicates) :
          /\ Len(duplicates[g].locations) >= 2
          /\ Cardinality(Range(duplicates[g].locations)) = Len(duplicates[g].locations)
    /\ \A g, h \in 1..Len(duplicates) :
          g # h =>
             /\ duplicates[g].hash # duplicates[h].hash
             /\ Range(duplicates[g].locations) \cap Range(duplicates[h].locations) = {}

\* two groups in one result
C20_Witness ==
    /\ Len(duplicates) = 2
    /\ Len(duplicates[1].locations) = 2
    /\ Len(duplicates[2].locations) = 2
    /\ pc = "exited"
    /\ HasReport

----------------------------------------------------------------------------
(* C21: duplicate detection has no size threshold.  Every readable         *)
(* zero-byte file that was scanned carries the same non-empty digest, and  *)
(* two or more of them, in one tree or in several, are the locations of    *)
(* one duplicate group; unreadable files carry the empty digest and are in *)
(* no group.                                                               *)

\* the scanned files of the corpus with the content given, as (source, path)
LocsWithContent(fate) ==
    {[source |-> Production, path |-> p] :
        p \in {q \in Hashed(prodDir, prodTree) : prodExists /\ prodTree[q] = fate}}
    \cup UNION {{[source |-> archive_files[i].version, path |-> p] :
                    p \in {q \in Hashed(Join(ArchRoot, archive_files[i].version),
                                        archTree[archive_files[i].version]) :
                              archTree[archive_files[i].version][q] = fate}} :
                i \in 1..Len(archive_files)}

C21_ZeroByteFilesGrouped ==
    AfterDuplicates =>
        LET zero == LocsWithContent(ZeroByte)
        IN /\ \A l \in zero :
                 \E r \in AllRecords :
                    Loc(r) = l /\ r.hash # EmptyDigest /\ r.hash = Sha256(ZeroByte)
           /\ Cardinality(zero) >= 2 =>
                 /\ Cardinality({g \in 1..Len(duplicates) :
                                    Range(duplicates[g].locations) = zero}) = 1
                 /\ zero \subseteq GroupedLocs
           /\ LocsWithContent(Unreadable) \cap GroupedLocs = {}

\* two zero-byte files of different trees in one group, next to two
\* unreadable files that no group holds
C21_Witness ==
    /\ AfterDuplicates
    /\ Cardinality(LocsWithContent(ZeroByte)) = 2
    /\ \E l, m \in LocsWithContent(ZeroByte) : l.source # m.source
    /\ Cardinality(LocsWithContent(Unreadable)) = 2
    /\ Len(duplicates) = 1
    /\ Range(duplicates[1].locations) = LocsWithContent(ZeroByte)

----------------------------------------------------------------------------
(* performance_optimizer: directives from a fitness report *)

MaxMetricDev == 1   \* distance of the reported metrics from their thresholds
MaxOldLines == 1    \* lines the directive file holds before the run

ThroughputTarget == 10000
LatencyTarget == 50
ThroughputDefault == 0
LatencyDefault == 100

ThroughputLow == "TASK_THROUGHPUT_LOW: Recommend increasing thread pool size."
LatencyHigh == "P99_LATENCY_HIGH: Recommend memory allocation optimization in Rust core."
OldLine == "CACHE_MISS_HIGH: Recommend a larger cache."

\* dict.get(key, default)
Get(dict, key, default) == IF key \in DOMAIN dict THEN dict[key] ELSE default

\* fault variant: a report without a latency is taken to meet the latency target
analyze_metrics_latencyDefaultZero(data) ==
    (IF Get(data, "tasks_per_sec", ThroughputDefault) < ThroughputTarget
     THEN <<ThroughputLow>> ELSE <<>>)
    \o (IF Get(data, "p99_latency_ms", 0) > LatencyTarget THEN <<LatencyHigh>> ELSE <<>>)

analyze_metrics(data) ==
    (IF Get(data, "tasks_per_sec", ThroughputDefault) < ThroughputTarget
     THEN <<ThroughputLow>> ELSE <<>>)
    \o (IF Get(data, "p99_latency_ms", LatencyDefault) > LatencyTarget
        THEN <<LatencyHigh>> ELSE <<>>)

\* the metrics a report is written with
ThroughputValues == {8500} \cup {ThroughputTarget + d : d \in (0 - MaxMetricDev)..MaxMetricDev}
LatencyValues == {65} \cup {LatencyTarget + d : d \in (0 - MaxMetricDev)..MaxMetricDev}
ReportKeys == {"tasks_per_sec", "p99_latency_ms", "error_rate"}

ReportDicts ==
    UNION {{[k \in keys |-> IF k = "tasks_per_sec" THEN tasks
                            ELSE IF k = "p99_latency_ms" THEN latency ELSE 0] :
               tasks \in ThroughputValues, latency \in LatencyValues} :
           keys \in SUBSET ReportKeys}

\* the report file: absent, not a JSON document (a file of no bytes), or a JSON object
ReportFiles ==
    {NoFile, [exists |-> TRUE, parses |-> FALSE, data |-> EmptyDict]}
    \cup {[exists |-> TRUE, parses |-> TRUE, data |-> d] : d \in ReportDicts}

PerfInit ==
    /\ reportFile \in ReportFiles
    /\ directiveWritable \in BOOLEAN
    /\ directiveBefore \in {NoLines} \cup {[exists |-> TRUE, lines |-> [i \in 1..n |-> OldLine]] :
                                             n \in 0..MaxOldLines}
    /\ directive = directiveBefore
    /\ suggestions = <<>>
    /\ applied = 0
    /\ perfPc = "load"
    /\ AnalyzerIdle
    /\ IdleExcept("performance_optimizer")

PerfKept == UNCHANGED analyzerVars /\ OthersUnchanged("performance_optimizer")

\* report = load_performance_report(PERF_REPORT_PATH); if not report: return
LoadPerformanceReport ==
    /\ perfPc = "load"
    /\ perfPc' = IF ~ reportFile.exists THEN "done"
                 ELSE IF ~ reportFile.parses THEN "raised"
                 ELSE IF reportFile.data = EmptyDict THEN "done"
                 ELSE "analyze"
    /\ UNCHANGED <<reportFile, directiveWritable, directiveBefore, directive, suggestions,
                   applied>>
    /\ PerfKept

\* suggestions = analyze_metrics(report); if not suggestions: return
AnalyzeMetrics ==
    /\ perfPc = "analyze"
    /\ suggestions' = analyze_metrics(reportFile.data)
    /\ perfPc' = IF suggestions' = <<>> THEN "done" ELSE "apply"
    /\ UNCHANGED <<reportFile, directiveWritable, directiveBefore, directive, applied>>
    /\ PerfKept

\* one turn of `for suggestion in suggestions: apply_optimization(suggestion)`
ApplyOptimization ==
    /\ perfPc = "apply"
    /\ IF directiveWritable
       THEN /\ directive' = [exists |-> TRUE,
                             lines |-> Append(directive.lines, suggestions[applied + 1])]
            /\ applied' = applied + 1
            /\ perfPc' = IF applied' = Len(suggestions) THEN "done" ELSE "apply"
       ELSE /\ perfPc' = "raised"
            /\ UNCHANGED <<directive, applied>>
    /\ UNCHANGED <<reportFile, directiveWritable, directiveBefore, suggestions>>
    /\ PerfKept

PerfNext ==
    \/ LoadPerformanceReport
    \/ AnalyzeMetrics
    \/ ApplyOptimization

PerfSpec == PerfInit /\ [][PerfNext]_vars

\* the report main() went on with
ReportRead == reportFile.exists /\ reportFile.parses /\ reportFile.data # EmptyDict
ThroughputFailed == Get(reportFile.data, "tasks_per_sec", 0) < 10000
LatencyFailed == Get(reportFile.data, "p99_latency_ms", 100) > 50
AppendedLines == SubSeq(directive.lines, Len(directiveBefore.lines) + 1, Len(directive.lines))
Appended(line) == Cardinality({i \in 1..Len(AppendedLines) : AppendedLines[i] = line})

\* C22: when main() has returned, the directive file holds what it held before
\* followed by one line per failed criterion of the report that was read, the
\* throughput line exactly when tasks_per_sec (0 when missing) is below 10000 and
\* the latency line exactly when p99_latency_ms (100 when missing) is above 50;
\* with the report file absent, without content or with both criteria met the
\* directive file is as it was
C22_OneDirectivePerFailedCriterion ==
    /\ SubSeq(directive.lines, 1, Len(directiveBefore.lines)) = directiveBefore.lines
    /\ (perfPc = "done" /\ ReportRead) =>
          /\ Appended(ThroughputLow) = (IF ThroughputFailed THEN 1 ELSE 0)
          /\ Appended(LatencyHigh) = (IF LatencyFailed THEN 1 ELSE 0)
          /\ Len(AppendedLines) = Appended(ThroughputLow) + Appended(LatencyHigh)
          /\ (ThroughputFailed \/ LatencyFailed) => directive.exists
    /\ (perfPc \in {"done", "raised"}
        /\ (~ ReportRead \/ (~ ThroughputFailed /\ ~ LatencyFailed))) =>
          directive = directiveBefore

C22_Witness ==
    /\ perfPc = "done"
    /\ reportFile.parses
    /\ DOMAIN reportFile.data = ReportKeys
    /\ reportFile.data["tasks_per_sec"] = 8500
    /\ reportFile.data["p99_latency_ms"] = 65
    /\ ~ directiveBefore.exists
    /\ directive = [exists |-> TRUE, lines |-> <<ThroughputLow, LatencyHigh>>]

----------------------------------------------------------------------------
(* Binary floating point, as far as simulate_request computes with it *)

\* natural numbers beyond the machine word: limbs to the base LimbBase, lowest first
LimbBase == 32768
LimbBits == 15
MantissaBits == 53

RECURSIVE Trim(_)
Trim(a) == IF a # <<>> /\ a[Len(a)] = 0 THEN Trim(SubSeq(a, 1, Len(a) - 1)) ELSE a

RECURSIVE BigOf(_)
BigOf(n) == IF n = 0 THEN <<>> ELSE <<n % LimbBase>> \o BigOf(n \div LimbBase)

RECURSIVE BigToInt(_)
BigToInt(a) == IF a = <<>> THEN 0 ELSE Head(a) + LimbBase * BigToInt(Tail(a))

RECURSIVE MulSmallCarry(_, _, _)
MulSmallCarry(a, s, carry) ==
    IF a = <<>> THEN BigOf(carry)
    ELSE LET v == Head(a) * s + carry
         IN <<v % LimbBase>> \o MulSmallCarry(Tail(a), s, v \div LimbBase)

\* a * s for 0 <= s < LimbBase
MulSmall(a, s) == Trim(MulSmallCarry(a, s, 0))

RECURSIVE AddCarry(_, _, _)
AddCarry(a, b, carry) ==
    IF a = <<>> /\ b = <<>> THEN BigOf(carry)
    ELSE LET x == IF a = <<>> THEN 0 ELSE Head(a)
             y == IF b = <<>> THEN 0 ELSE Head(b)
             v == x + y + carry
         IN <<v % LimbBase>> \o AddCarry(IF a = <<>> THEN a ELSE Tail(a),
                                         IF b = <<>> THEN b ELSE Tail(b), v \div LimbBase)

BigAdd(a, b) == Trim(AddCarry(a, b, 0))

RECURSIVE BigMul(_, _)
BigMul(a, b) ==
    IF a = <<>> \/ b = <<>> THEN <<>>
    ELSE BigAdd(MulSmall(a, Head(b)), Trim(<<0>> \o BigMul(a, Tail(b))))

\* quotient and remainder of a by s, 0 < s < LimbBase
RECURSIVE DivSmall(_, _)
DivSmall(a, s) ==
    IF a = <<>> THEN [q |-> <<>>, r |-> 0]
    ELSE LET high == DivSmall(Tail(a), s)
             v == high.r * LimbBase + Head(a)
         IN [q |-> <<v \div s>> \o high.q, r |-> v % s]

RECURSIVE SmallBitLen(_)
SmallBitLen(n) == IF n = 0 THEN 0 ELSE 1 + SmallBitLen(n \div 2)

BitLen(a) == IF a = <<>> THEN 0 ELSE LimbBits * (Len(a) - 1) + SmallBitLen(a[Len(a)])

\* a * 2^n
ShiftLeft(a, n) ==
    IF a = <<>> THEN <<>>
    ELSE [i \in 1..(n \div LimbBits) |-> 0] \o MulSmall(a, 2 ^ (n % LimbBits))

\* floor(a / 2^n), and whether a bit was shifted out
ShiftRight(a, n) ==
    LET limbs == n \div LimbBits
        kept == IF limbs >= Len(a) THEN <<>> ELSE SubSeq(a, limbs + 1, Len(a))
        low == IF limbs >= Len(a) THEN a ELSE SubSeq(a, 1, limbs)
        d == DivSmall(kept, 2 ^ (n % LimbBits))
    IN [q |-> Trim(d.q), lost |-> d.r # 0 \/ \E i \in 1..Len(low) : low[i] # 0]

\* a < b, both without leading zero limbs
BigLess(a, b) ==
    \/ Len(a) < Len(b)
    \/ /\ Len(a) = Len(b)
       /\ \E i \in 1..Len(a) : /\ a[i] < b[i]
                               /\ \A j \in (i + 1)..Len(a) : a[j] = b[j]

\* a double: the number m * 2^e
Float(m, e) == [m |-> m, e |-> e]

\* the double nearest to a * 2^e (ties to even); inexact: a stands for a number
\* strictly between a and a + 1
RoundToDouble(a, e, inexact) ==
    LET n == BitLen(a) - MantissaBits
    IN IF n <= 0 THEN Float(a, e)
       ELSE LET above == ShiftRight(a, n - 1)
                half == above.q # <<>> /\ above.q[1] % 2 = 1
                q == ShiftRight(above.q, 1).q
                odd == q # <<>> /\ q[1] % 2 = 1
                up == half /\ (above.lost \/ inexact \/ odd)
            IN Float(IF up THEN BigAdd(q, <<1>>) ELSE q, e + n)

\* float(n) for an int n of the model's size
FloatOf(n) == Float(BigOf(n), 0)

\* x / s for an int 0 < s < LimbBase
FloatDivSmall(x, s) ==
    LET d == DivSmall(ShiftLeft(x.m, 4 * LimbBits), s)
    IN RoundToDouble(Trim(d.q), x.e - 4 * LimbBits, d.r # 0)

FloatMul(x, y) == RoundToDouble(BigMul(x.m, y.m), x.e + y.e, FALSE)

\* the double written 1.1: 4953959590107546 * 2^-52
OnePointOne == Float(<<6554, 13107, 26214, 140>>, 0 - 52)

\* n > x for an int n
IntGreater(n, x) ==
    IF x.e >= 0 THEN BigLess(ShiftLeft(x.m, x.e), BigOf(n))
    ELSE BigLess(x.m, ShiftLeft(BigOf(n), 0 - x.e))

\* int(x) for x >= 0
IntOf(x) == IF x.e >= 0 THEN BigToInt(ShiftLeft(x.m, x.e))
            ELSE BigToInt(ShiftRight(x.m, 0 - x.e).q)

----------------------------------------------------------------------------
(* test_rate_limit: the simulated rate limiter *)

MaxCountDev == 1   \* distance of the first request count from the 10 % boundary
MaxCalls == 3      \* calls of simulate_request with one policy and duration

SecondsPerMinute == 60

\* max_requests_per_minute of the tenants
PerMinuteValues == {600, 6000, 12000, 584}
Tenants == {"default_tenant_policy", "premium_tenant_a", "free_tier_tenant_b"}
Durations == {1, 75}
ScenarioCounts == {90, 115, 190, 221, 9, 12}

Headers(retry) == [h \in {"Retry-After"} |-> retry]
NoHeaders == [h \in {} |-> 0]

\* the policies a tenant can have; backoff_headers tell after how many seconds to retry
TenantPolicies(retry) ==
    UNION {{[k \in keys |-> IF k = "max_requests_per_minute" THEN max ELSE Headers(retry)] :
               max \in PerMinuteValues} :
           keys \in SUBSET {"max_requests_per_minute", "backoff_headers"}}

\* the documents rate_limits.yaml can hold; default_tenant_policy is no key of
\* tenant_overrides
PolicyFiles ==
    {[default_tenant_policy |-> d, tenant_overrides |-> o] :
        d \in TenantPolicies(60),
        o \in {EmptyDict} \cup UNION {{[t \in {tenant} |-> p] : p \in TenantPolicies(30)} :
                                        tenant \in Tenants \ {"default_tenant_policy"}}}

\* policy['tenant_overrides'].get(tenant_name) or policy['default_tenant_policy']
TenantPolicy(file, tenant) ==
    IF tenant \in DOMAIN file.tenant_overrides /\ file.tenant_overrides[tenant] # EmptyDict
    THEN file.tenant_overrides[tenant]
    ELSE file.default_tenant_policy

Unlimited(tenant_policy) == "max_requests_per_minute" \notin DOMAIN tenant_policy

\* (max_per_minute / 60) * duration_seconds
theoretical_max(tenant_policy, duration) ==
    FloatMul(FloatDivSmall(FloatOf(tenant_policy["max_requests_per_minute"]), SecondsPerMinute),
             FloatOf(duration))

\* request_count > theoretical_max * 1.1; without a limit the maximum is float('inf')
expected_throttled(tenant_policy, count, duration) ==
    /\ ~ Unlimited(tenant_policy)
    /\ IntGreater(count, FloatMul(theoretical_max(tenant_policy, duration), OnePointOne))

simulate_request(file, tenant_policy, count, duration) ==
    IF expected_throttled(tenant_policy, count, duration)
    THEN [total_requests |-> count,
          successful_requests |-> IntOf(theoretical_max(tenant_policy, duration)),
          throttled_requests |-> count - IntOf(theoretical_max(tenant_policy, duration)),
          throttled |-> TRUE,
          headers |-> IF "backoff_headers" \in DOMAIN tenant_policy
                      THEN tenant_policy["backoff_headers"]
                      ELSE Get(file.default_tenant_policy, "backoff_headers", NoHeaders)]
    ELSE [total_requests |-> count,
          successful_requests |-> count,
          throttled_requests |-> 0,
          throttled |-> FALSE,
          headers |-> NoHeaders]

\* the request count at the 10 % boundary of a policy
Boundary(tenant_policy, duration) ==
    IF Unlimited(tenant_policy) THEN 0
    ELSE (11 * tenant_policy["max_requests_per_minute"] * duration) \div 600

RateInit ==
    /\ policy \in PolicyFiles
    /\ tenant_name \in Tenants
    /\ duration_seconds \in Durations
    /\ request_count \in ScenarioCounts
          \cup {n \in {Boundary(TenantPolicy(policy, tenant_name), duration_seconds) + k :
                          k \in (0 - MaxCountDev)..MaxCountDev} : n >= 0}
    /\ results = <<>>
    /\ AnalyzerIdle
    /\ IdleExcept("test_rate_limit")

\* run_test_scenario for the tenant, and the next scenario asks for one request more
RunTestScenario ==
    /\ Len(results) < MaxCalls
    /\ results' = Append(results, simulate_request(policy, TenantPolicy(policy, tenant_name),
                                                   request_count, duration_seconds))
    /\ request_count' = request_count + 1
    /\ UNCHANGED <<policy, tenant_name, duration_seconds>>
    /\ UNCHANGED analyzerVars
    /\ OthersUnchanged("test_rate_limit")

RateNext ==
    \/ RunTestScenario

RateSpec == RateInit /\ [][RateNext]_vars

\* the limit the tenant of the scenarios is judged by
MaxPerMinute == TenantPolicy(policy, tenant_name)["max_requests_per_minute"]
Limited == ~ Unlimited(TenantPolicy(policy, tenant_name))

\* C23: a result reports throttled exactly when 600 * request_count exceeds
\* 11 * max_requests_per_minute * duration_seconds, the limit being the override of
\* the tenant or, without one, that of default_tenant_policy
C23_ThrottledIffOverTenPercent ==
    \A i \in 1..Len(results) :
        Limited =>
            (results[i].throttled
                <=> 600 * results[i].total_requests > 11 * MaxPerMinute * duration_seconds)

\* C30: every result conserves the requests (successful + throttled = total,
\* 0 <= successful <= total, throttled_requests > 0 exactly when throttled), and
\* of two results for one policy and duration the one for more requests has no
\* fewer successful requests
C30_RequestsConservedAndMonotonic ==
    /\ \A i \in 1..Len(results) :
          /\ results[i].successful_requests + results[i].throttled_requests
                = results[i].total_requests
          /\ 0 <= results[i].successful_requests
          /\ results[i].successful_requests <= results[i].total_requests
          /\ results[i].throttled_requests > 0 <=> results[i].throttled
    /\ \A i, j \in 1..Len(results) :
          results[i].total_requests <= results[j].total_requests
             => results[i].successful_requests <= results[j].successful_requests

----------------------------------------------------------------------------
(* C24 *)

\* the locations of each reported duplicate group, whatever the order of the walk
GroupsIn(rep) == {Range(rep.duplicates[i].locations) : i \in 1..Len(rep.duplicates)}

\* C24: the report a second call of analyze() on the same instance returns has the
\* summary counts, the duplicate groups, the lineage sample and the missing list of
\* the report the first call returned
C24_SecondCallSameResults ==
    (calls = 2 /\ pc = "exit") =>
        /\ report.summary = previous.summary
        /\ Len(report.duplicates) = Len(previous.duplicates)
        /\ GroupsIn(report) = GroupsIn(previous)
        /\ Range(report.lineage_sample) = Range(previous.lineage_sample)
        /\ report.missing = previous.missing

----------------------------------------------------------------------------
(* migrate_config: ConfigDiffer *)

MaxConfigKeys == 2   \* top-level keys of a configuration

\* a value of a configuration, with what Python's == looks at: a bool is the
\* number 0 or 1, a str equals only an equal str; items are those of a nested dict
IntValue(n) == [type |-> "int", num |-> n, text |-> "", items |-> <<>>]
BoolValue(b) == [type |-> "bool", num |-> IF b THEN 1 ELSE 0, text |-> "", items |-> <<>>]
StrValue(s) == [type |-> "str", num |-> 0, text |-> s, items |-> <<>>]

\* a == b
PyEq(a, b) ==
    IF a.type = "str" \/ b.type = "str" THEN a.type = b.type /\ a.text = b.text
    ELSE a.num = b.num

ConfigValues == {IntValue(1), BoolValue(TRUE), StrValue("a")}
ConfigKeyNames == <<"version", "name", "port", "debug">>
ConfigKeys == {ConfigKeyNames[i] : i \in 1..MaxConfigKeys}

\* the configurations: dicts in the order of their keys in the file
Configs ==
    UNION {{[i \in 1..Len(order) |-> [key |-> order[i], value |-> value[order[i]]]] :
               order \in Perms(keys), value \in [keys -> ConfigValues]} :
           keys \in SUBSET ConfigKeys}

Keys(d) == {d[i].key : i \in 1..Len(d)}

\* d[key]
Item(d, key) == d[CHOOSE i \in 1..Len(d) : d[i].key = key]

\* d1 == d2 for dicts: the same keys with equal values, in any order
DictEq(d1, d2) ==
    /\ Keys(d1) = Keys(d2)
    /\ \A k \in Keys(d1) : PyEq(Item(d1, k).value, Item(d2, k).value)

\* fault variant: the keys only config1 has are not reported
diff_noRemoved(c1, c2) ==
    LET shared == SelectSeq(c2, LAMBDA e : e.key \in Keys(c1)
                                           /\ ~ PyEq(Item(c1, e.key).value, e.value))
    IN [added |-> SelectSeq(c2, LAMBDA e : e.key \notin Keys(c1)),
        removed |-> <<>>,
        changed |-> [i \in 1..Len(shared) |->
                        [key |-> shared[i].key,
                         value |-> [old |-> Item(c1, shared[i].key).value,
                                    new |-> shared[i].value]]]]

\* ConfigDiffer.diff
diff(c1, c2) ==
    LET shared == SelectSeq(c2, LAMBDA e : e.key \in Keys(c1)
                                           /\ ~ PyEq(Item(c1, e.key).value, e.value))
    IN [added |-> SelectSeq(c2, LAMBDA e : e.key \notin Keys(c1)),
        removed |-> SelectSeq(c1, LAMBDA e : e.key \notin Keys(c2)),
        changed |-> [i \in 1..Len(shared) |->
                        [key |-> shared[i].key,
                         value |-> [old |-> Item(c1, shared[i].key).value,
                                    new |-> shared[i].value]]]]

\* ConfigDiffer.apply_diff: on a deep copy, pop the removed keys, update with
\* the added ones, assign the new value of the changed ones
apply_diff(config, d) ==
    LET popped == SelectSeq(config, LAMBDA e : e.key \notin Keys(d.removed))
        updated == DictUpdateKey(popped, d.added)
    IN DictUpdateKey(updated, [i \in 1..Len(d.changed) |->
                                  [key |-> d.changed[i].key, value |-> d.changed[i].value.new]])

NoDiff == [added |-> <<>>, removed |-> <<>>, changed |-> <<>>]

DiffInit ==
    /\ config1 \in Configs
    /\ config2 \in Configs
    /\ difference = NoDiff
    /\ result = <<>>
    /\ diffPc = "diff"
    /\ AnalyzerIdle
    /\ IdleExcept("ConfigDiffer")

\* difference = ConfigDiffer.diff(config1, config2)
Diff ==
    /\ diffPc = "diff"
    /\ difference' = diff(config1, config2)
    /\ diffPc' = "apply_diff"
    /\ UNCHANGED <<config1, config2, result>>
    /\ UNCHANGED analyzerVars
    /\ OthersUnchanged("ConfigDiffer")

\* result = ConfigDiffer.apply_diff(config1, difference)
ApplyDiff ==
    /\ diffPc = "apply_diff"
    /\ result' = apply_diff(config1, difference)
    /\ diffPc' = "done"
    /\ UNCHANGED <<config1, config2, difference>>
    /\ UNCHANGED analyzerVars
    /\ OthersUnchanged("ConfigDiffer")

DiffNext ==
    \/ Diff
    \/ ApplyDiff

DiffSpec == DiffInit /\ [][DiffNext]_vars

----------------------------------------------------------------------------
(* validate_config: ConfigValidator *)

MaxValidations == 2   \* calls of validate_file and validate_directory on one instance

DictValue(items) == [type |-> "dict", num |-> 0, text |-> "", items |-> items]
NoneValue == [type |-> "none", num |-> 0, text |-> "", items |-> <<>>]

\* {key: value}, and dicts of two and three items
D1(k, v) == <<[key |-> k, value |-> v]>>
D2(k1, v1, k2, v2) == <<[key |-> k1, value |-> v1], [key |-> k2, value |-> v2]>>
D3(k1, v1, k2, v2, k3, v3) ==
    <<[key |-> k1, value |-> v1], [key |-> k2, value |-> v2], [key |-> k3, value |-> v3]>>

\* path.split("."), for the paths of SCHEMAS
RateLimitsPath == <<"rate_limits">>
DefaultRpsPath == <<"rate_limits", "default_rps">>
BurstSizePath == <<"rate_limits", "burst_size">>

Numbers == {"int", "float", "bool"}   \* isinstance(True, int) holds

\* ConfigValidator.SCHEMAS
SCHEMAS ==
    [name \in {"rate_limits.yaml", "tracing.yaml", "agentgateway-dev.yaml"} |->
        IF name = "rate_limits.yaml"
        THEN [required_fields |-> <<"rate_limits">>,
              field_types |-> <<[path |-> RateLimitsPath, types |-> {"dict"}],
                                [path |-> DefaultRpsPath, types |-> Numbers],
                                [path |-> BurstSizePath, types |-> Numbers]>>,
              constraints |-> <<DefaultRpsPath, BurstSizePath>>]
        ELSE IF name = "tracing.yaml"
        THEN [required_fields |-> <<"version", "tracer", "exporters">>,
              field_types |-> <<[path |-> <<"version">>, types |-> {"str"}],
                                [path |-> <<"tracer">>, types |-> {"dict"}],
                                [path |-> <<"exporters">>, types |-> {"dict"}]>>,
              constraints |-> <<>>]
        ELSE [required_fields |-> <<"gateway", "server">>,
              field_types |-> <<[path |-> <<"gateway", "port">>, types |-> {"int", "bool", "str"}],
                                [path |-> <<"server", "host">>, types |-> {"str"}]>>,
              constraints |-> <<>>]]

\* the keys of the configurations whose lower-case form contains one of
\* SENSITIVE_FIELDS
SensitiveKeys == {"password", "API_KEY"}

\* _get_nested_value
RECURSIVE _get_nested_value(_, _)
_get_nested_value(current, parts) ==
    IF parts = <<>> THEN current
    ELSE IF current.type = "dict"
    THEN _get_nested_value(IF Head(parts) \in Keys(current.items)
                           THEN Item(current.items, Head(parts)).value ELSE NoneValue,
                           Tail(parts))
    ELSE NoneValue

\* the errors _validate_schema appends: missing required fields, then type
\* mismatches, then violated constraints (lambda x: x > 0)
_validate_schema(config, filename) ==
    LET schema == SCHEMAS[filename]
        value(path) == _get_nested_value(DictValue(config), path)
        absent == SelectSeq(schema.required_fields, LAMBDA f : f \notin Keys(config))
        mistyped == SelectSeq(schema.field_types,
                              LAMBDA ft : value(ft.path).type \notin ft.types \cup {"none"})
        violated == SelectSeq(schema.constraints,
                              LAMBDA path : value(path).type # "none" /\ ~ (value(path).num > 0))
    IN [i \in 1..Len(absent) |-> [field |-> <<absent[i]>>, error |-> "Required field missing"]]
       \o [i \in 1..Len(mistyped) |-> [field |-> mistyped[i].path, error |-> "Type mismatch"]]
       \o [i \in 1..Len(violated) |-> [field |-> violated[i], error |-> "Constraint violation"]]

\* the warnings _validate_sensitive_fields appends, nested dicts included
RECURSIVE _validate_sensitive_fields(_, _)
_validate_sensitive_fields(config, path) ==
    IF config = <<>> THEN <<>>
    ELSE LET key == Head(config).key
             value == Head(config).value
             current_path == Append(path, key)
         IN (IF key \in SensitiveKeys /\ value.type = "str" /\ value.text # ""
             THEN <<[field |-> current_path, error |-> "Sensitive field exposed in config"]>>
             ELSE <<>>)
            \o (IF value.type = "dict" THEN _validate_sensitive_fields(value.items, current_path)
                ELSE <<>>)
            \o _validate_sensitive_fields(Tail(config), path)

\* the warning _validate_structure appends
_validate_structure(config) ==
    IF config = <<>> THEN <<[field |-> <<"root">>, error |-> "Configuration is empty"]>>
    ELSE <<>>

\* _load_config raises for a suffix other than .yaml, .yml and .toml
Suffixes == [name \in {"rate_limits.yaml", "tracing.yaml", "app.yml", "settings.json"} |->
                IF name = "settings.json" THEN ".json"
                ELSE IF name = "app.yml" THEN ".yml" ELSE ".yaml"]
Loads(file) == file.parses /\ Suffixes[file.name] \in {".yaml", ".yml", ".toml"}

\* the errors and warnings one call of validate_file appends
FileErrors(file) ==
    IF ~ file.exists THEN <<[field |-> <<file.name>>, error |-> "File not found"]>>
    ELSE IF ~ Loads(file) THEN <<[field |-> <<file.name>>, error |-> "Failed to parse file"]>>
    ELSE IF file.name \in DOMAIN SCHEMAS THEN _validate_schema(file.config, file.name)
    ELSE <<>>

FileWarnings(file) ==
    IF ~ file.exists \/ ~ Loads(file) THEN <<>>
    ELSE _validate_sensitive_fields(file.config, <<>>) \o _validate_structure(file.config)

\* what validate_file returns, self.errors being errs when it is called
validate_file(errs, file) ==
    IF ~ file.exists \/ ~ Loads(file) THEN FALSE
    ELSE Len(errs \o FileErrors(file)) = 0

\* the documents of the configuration files
ValidatorConfigs ==
    {<<>>,
     D1("rate_limits", DictValue(D2("default_rps", IntValue(5), "burst_size", IntValue(10)))),
     D1("rate_limits", DictValue(D2("default_rps", IntValue(0), "burst_size", IntValue(10)))),
     D1("rate_limits", StrValue("off")),
     D3("version", StrValue("1"), "tracer", DictValue(<<>>), "exporters", DictValue(<<>>)),
     D3("version", IntValue(1), "tracer", DictValue(<<>>), "exporters", DictValue(<<>>)),
     D1("password", StrValue("hunter2")),
     D2("name", StrValue("svc"), "db", DictValue(D1("API_KEY", StrValue("k")))),
     D1("name", StrValue("svc"))}

ValidatorFiles ==
    {[name |-> n, exists |-> FALSE, parses |-> FALSE, config |-> <<>>] : n \in DOMAIN Suffixes}
    \cup {[name |-> n, exists |-> TRUE, parses |-> FALSE, config |-> <<>>] : n \in DOMAIN Suffixes}
    \cup {[name |-> n, exists |-> TRUE, parses |-> TRUE, config |-> c] :
             n \in DOMAIN Suffixes, c \in ValidatorConfigs}

NoTarget == [name |-> "app.yml", exists |-> FALSE, parses |-> FALSE, config |-> <<>>]

\* a file glob("*.yaml"), glob("*.yml") or glob("*.toml") finds
IsConfigFile(file) == file.exists /\ Suffixes[file.name] \in {".yaml", ".yml", ".toml"}

\* the directories validate_directory is called on: a missing one, an empty one,
\* one whose files are all valid and one with an invalid file
ValidatorDirectories ==
    LET valid == [name |-> "app.yml", exists |-> TRUE, parses |-> TRUE,
                  config |-> D1("name", StrValue("svc"))]
        invalid == [name |-> "tracing.yaml", exists |-> TRUE, parses |-> TRUE, config |-> <<>>]
    IN {[exists |-> FALSE, files |-> {}], [exists |-> TRUE, files |-> {}],
        [exists |-> TRUE, files |-> {valid}], [exists |-> TRUE, files |-> {valid, invalid}]}

NoDirectory == [exists |-> FALSE, files |-> {}]

ValidatorInit ==
    /\ errors = <<>>
    /\ warnings = <<>>
    /\ validations = <<>>
    /\ AnalyzerIdle
    /\ IdleExcept("ConfigValidator")

\* validator.validate_file(filepath)
ValidateFile ==
    /\ Len(validations) < MaxValidations
    /\ \A i \in 1..Len(validations) : validations[i].outcome # "raised"
    /\ \E file \in ValidatorFiles :
          /\ errors' = errors \o FileErrors(file)
          /\ warnings' = warnings \o FileWarnings(file)
          /\ validations' = Append(validations,
                [kind |-> "file", file |-> file, directory |-> NoDirectory,
                 outcome |-> IF validate_file(errors, file) THEN "True" ELSE "False"])
    /\ UNCHANGED analyzerVars
    /\ OthersUnchanged("ConfigValidator")

\* validator.validate_directory(dirpath): for an existing directory the sum of
\* the three generators path.glob returns raises TypeError
ValidateDirectory ==
    /\ Len(validations) < MaxValidations
    /\ \A i \in 1..Len(validations) : validations[i].outcome # "raised"
    /\ \E dir \in ValidatorDirectories :
          /\ errors' = IF dir.exists THEN errors
                       ELSE Append(errors, [field |-> <<"dirpath">>, error |-> "Directory not found"])
          /\ validations' = Append(validations,
                [kind |-> "directory", file |-> NoTarget, directory |-> dir,
                 outcome |-> IF dir.exists THEN "raised" ELSE "False"])
    /\ UNCHANGED warnings
    /\ UNCHANGED analyzerVars
    /\ OthersUnchanged("ConfigValidator")

ValidatorNext ==
    \/ ValidateFile
    \/ ValidateDirectory

ValidatorSpec == ValidatorInit /\ [][ValidatorNext]_vars

\* C26: every call of validate_file returned True exactly when the file it was
\* called on produced no error, whatever was validated before and whatever the
\* warnings, and every call of validate_directory returned True exactly when the
\* directory exists and each of its configuration files produces no error
C26_ResultIsOwnValidity ==
    \A i \in 1..Len(validations) :
        LET call == validations[i]
        IN IF call.kind = "file"
           THEN call.outcome = "True" <=> FileErrors(call.file) = <<>>
           ELSE call.outcome = "True"
                   <=> /\ call.directory.exists
                       /\ \A f \in call.directory.files : IsConfigFile(f) => FileErrors(f) = <<>>

----------------------------------------------------------------------------
(* unify_agents: archive, write the canonical file, remove the variants *)

MaxAbsentFiles == 1   \* files of the directory that are absent when the script starts

\* a file: its directory and its name cut where the glob patterns cut it
File(dir, name) == [dir |-> dir, name |-> name]

CsvHealed == File("base", <<"All_Inclusive_Agent_Directory", "_v6_plus.normalized.", "healed", ".csv">>)
CsvFixed == File("base", <<"All_Inclusive_Agent_Directory", "_v6_plus.normalized.", "fixed", ".csv">>)
CsvTarget == File("base", <<"All_Inclusive_Agent_Directory", ".csv">>)
ManifestV1 == File("base", <<"stack.manifest", ".v", "1", ".json">>)
ManifestV2 == File("base", <<"stack.manifest", ".v", "2", ".json">>)
ManifestDraft == File("base", <<"stack.manifest", "-draft", ".json">>)
ManifestTarget == File("base", <<"stack.manifest", ".json">>)
CsvSchemaV2 == File("schema", <<"CSV_SCHEMA", "_v", "2", ".md">>)
CsvSchemaV3 == File("schema", <<"CSV_SCHEMA", "_v", "3", ".md">>)
CsvSchemaTarget == File("schema", <<"CSV_SCHEMA", ".md">>)
CapsuleV2 == File("schema", <<"capsule.schema", ".v2", ".json">>)
CapsuleTarget == File("schema", <<"capsule.schema", ".json">>)
ReadmeHealed == File("base", <<"README", "_v3_HEALED", ".md">>)
ReadmeExtended == File("base", <<"README", "_extended", ".md">>)
ReadmeTarget == File("base", <<"README", ".md">>)
HowtoV31 == File("base", <<"HOW-TO-USE", "_v", "3_1", ".md">>)
HowtoExtended == File("base", <<"HOW-TO-USE", "_v", "3_1_extended", ".md">>)
HowtoTarget == File("base", <<"HOW-TO-USE", ".md">>)
Templates == File("templates", <<"agent_directory_template", ".csv">>)
UnificationReport == File("base", <<"UNIFICATION_REPORT", ".md">>)

\* the files the directory can hold before the run
UnifyFiles ==
    {CsvHealed, CsvFixed, CsvTarget, ManifestV1, ManifestV2, ManifestDraft, ManifestTarget,
     CsvSchemaV2, CsvSchemaV3, CsvSchemaTarget, CapsuleV2, CapsuleTarget,
     ReadmeHealed, ReadmeExtended, ReadmeTarget, HowtoV31, HowtoExtended, HowtoTarget}

\* fnmatch of a name against prefix*suffix
Matches(name, prefix, suffix) ==
    /\ Len(name) >= Len(prefix) + Len(suffix)
    /\ SubSeq(name, 1, Len(prefix)) = prefix
    /\ SubSeq(name, Len(name) - Len(suffix) + 1, Len(name)) = suffix

\* the statements of the five unify functions and of the end of main()
Statement(function, op, dir, prefix, suffix, except, sub, file, dst, else) ==
    [function |-> function, op |-> op, dir |-> dir, prefix |-> prefix, suffix |-> suffix,
     except |-> except, sub |-> sub, file |-> file, dst |-> dst, else |-> else]

\* for f in dir.glob(prefix*suffix): if f != except: archive_file(f, archive/sub)
ArchiveGlob(function, dir, prefix, suffix, except, sub) ==
    Statement(function, "archive_glob", dir, prefix, suffix, except, sub, CsvTarget, CsvTarget, 0)
\* for f in dir.glob(prefix*suffix): if f != except: f.unlink()
RemoveGlob(function, dir, prefix, suffix, except) ==
    Statement(function, "remove_glob", dir, prefix, suffix, except, "", CsvTarget, CsvTarget, 0)
\* archive_file(file, archive/sub)
ArchiveOne(function, file, sub) ==
    Statement(function, "archive_one", "", <<>>, <<>>, {}, sub, file, file, 0)
\* shutil.copy2(file, dst)
Copy(function, file, dst) == Statement(function, "copy", "", <<>>, <<>>, {}, "", file, dst, 0)
\* file.unlink()
UnlinkOne(function, file) == Statement(function, "unlink_one", "", <<>>, <<>>, {}, "", file, file, 0)
\* if file.exists(): ... with the first statement after the block
IfExists(function, file, else) ==
    Statement(function, "if_exists", "", <<>>, <<>>, {}, "", file, file, else)
\* the last steps of main()
Plain(function, op) == Statement(function, op, "", <<>>, <<>>, {}, "", CsvTarget, CsvTarget, 0)

CsvVariants == <<"All_Inclusive_Agent_Directory", "_v6_plus.normalized.">>

\* fault variant: unify_csv_files removes the variants before it archives them
Program_unlinkFirst ==
    <<RemoveGlob("unify_csv_files", "base", CsvVariants, <<".csv">>, {}),
      Copy("unify_csv_files", CsvHealed, CsvTarget),
      ArchiveGlob("unify_csv_files", "base", CsvVariants, <<".csv">>, {}, "csv"),
      Plain("main", "return")>>

Program ==
    <<ArchiveGlob("unify_csv_files", "base", CsvVariants, <<".csv">>, {}, "csv"),
      Copy("unify_csv_files", CsvHealed, CsvTarget),
      RemoveGlob("unify_csv_files", "base", CsvVariants, <<".csv">>, {}),
      ArchiveGlob("unify_manifest_files", "base", <<"stack.manifest">>, <<".json">>,
                  {ManifestTarget}, "manifests"),
      Copy("unify_manifest_files", ManifestV2, ManifestTarget),
      RemoveGlob("unify_manifest_files", "base", <<"stack.manifest", ".v">>, <<".json">>, {}),
      IfExists("unify_schema_files", CsvSchemaV3, 11),
      ArchiveGlob("unify_schema_files", "schema", <<"CSV_SCHEMA", "_v">>, <<".md">>, {}, "schemas"),
      Copy("unify_schema_files", CsvSchemaV3, CsvSchemaTarget),
      RemoveGlob("unify_schema_files", "schema", <<"CSV_SCHEMA", "_v">>, <<".md">>, {}),
      IfExists("unify_schema_files", CapsuleV2, 16),
      ArchiveOne("unify_schema_files", CapsuleTarget, "schemas"),
      ArchiveOne("unify_schema_files", CapsuleV2, "schemas"),
      Copy("unify_schema_files", CapsuleV2, CapsuleTarget),
      UnlinkOne("unify_schema_files", CapsuleV2),
      ArchiveGlob("unify_readme_files", "base", <<"README">>, <<".md">>, {ReadmeTarget}, "readmes"),
      IfExists("unify_readme_files", ReadmeHealed, 22),
      IfExists("unify_readme_files", ReadmeTarget, 20),
      ArchiveOne("unify_readme_files", ReadmeTarget, "readmes"),
      Copy("unify_readme_files", ReadmeHealed, ReadmeTarget),
      RemoveGlob("unify_readme_files", "base", <<"README">>, <<".md">>, {ReadmeTarget}),
      ArchiveGlob("unify_howto_files", "base", <<"HOW-TO-USE">>, <<".md">>, {}, "howto"),
      IfExists("unify_howto_files", HowtoExtended, 26),
      Copy("unify_howto_files", HowtoExtended, HowtoTarget),
      RemoveGlob("unify_howto_files", "base", <<"HOW-TO-USE", "_v">>, <<".md">>, {}),
      Plain("create_templates", "create_templates"),
      Plain("create_unification_report", "create_unification_report"),
      Plain("main", "return")>>

\* the files the loop of a statement visits in a directory holding fs
Glob(statement, fs) ==
    {f \in fs : /\ f.dir = statement.dir
                /\ Matches(f.name, statement.prefix, statement.suffix)
                /\ f \notin statement.except}

Loops == {"archive_glob", "remove_glob"}

\* the next statement with something to do, from statement n on
RECURSIVE Settle(_, _)
Settle(n, fs) ==
    IF Program[n].op \in Loops
    THEN IF Glob(Program[n], fs) = {} THEN Settle(n + 1, fs) ELSE n
    ELSE IF Program[n].op = "if_exists"
    THEN IF Program[n].file \in fs THEN Settle(n + 1, fs) ELSE Settle(Program[n].else, fs)
    ELSE n

LoopQueue(n, fs) == IF Program[n].op \in Loops THEN Glob(Program[n], fs) ELSE {}

UnifyInit ==
    /\ present \in {UnifyFiles \ gone : gone \in {g \in SUBSET UnifyFiles :
                                                    Cardinality(g) <= MaxAbsentFiles}}
    /\ ip = Settle(1, present)
    /\ pending = LoopQueue(ip, present)
    /\ archive = {}
    /\ copied = {}
    /\ removed = {}
    /\ unifyError = "none"
    /\ unifyExit = NoExit
    /\ AnalyzerIdle
    /\ IdleExcept("unify_agents")

UnifyKept == UNCHANGED analyzerVars /\ OthersUnchanged("unify_agents")

Running == unifyExit = NoExit

\* control passes to statement n
Goto(n, fs) ==
    /\ ip' = Settle(n, fs)
    /\ pending' = LoopQueue(ip', fs)

\* one file of a loop has been handled
Advance(rest, fs) ==
    IF rest = {} THEN Goto(ip + 1, fs) ELSE ip' = ip /\ pending' = rest

\* the exception reaches the except clause of main(), which returns 1
RaiseInStep ==
    /\ unifyError' = Program[ip].function
    /\ unifyExit' = 1
    /\ UNCHANGED <<ip, pending>>

Archived(file) == [sub |-> Program[ip].sub, of |-> file, function |-> Program[ip].function]

\* archive_file: shutil.copy2 into the archive directory of the step
ArchiveFile ==
    /\ Running
    /\ \/ /\ Program[ip].op = "archive_glob"
          /\ \E f \in pending :
                /\ archive' = archive \cup {Archived(f)}
                /\ Advance(pending \ {f}, present)
          /\ UNCHANGED <<unifyError, unifyExit>>
       \/ /\ Program[ip].op = "archive_one"
          /\ IF Program[ip].file \in present
             THEN /\ archive' = archive \cup {Archived(Program[ip].file)}
                  /\ Goto(ip + 1, present)
                  /\ UNCHANGED <<unifyError, unifyExit>>
             ELSE /\ RaiseInStep
                  /\ UNCHANGED archive
    /\ UNCHANGED <<present, copied, removed>>
    /\ UnifyKept

\* shutil.copy2(canonical, target)
CopyCanonical ==
    /\ Running
    /\ Program[ip].op = "copy"
    /\ IF Program[ip].file \in present
       THEN /\ present' = present \cup {Program[ip].dst}
            /\ copied' = copied \cup {[file |-> Program[ip].dst, function |-> Program[ip].function]}
            /\ Goto(ip + 1, present')
            /\ UNCHANGED <<unifyError, unifyExit>>
       ELSE /\ RaiseInStep
            /\ UNCHANGED <<present, copied>>
    /\ UNCHANGED <<archive, removed>>
    /\ UnifyKept

Unlinked(file) == [file |-> file, function |-> Program[ip].function]

\* unlink() of one file of a removal loop, or of the named file
Unlink ==
    /\ Running
    /\ \/ /\ Program[ip].op = "remove_glob"
          /\ \E f \in pending :
                /\ present' = present \ {f}
                /\ removed' = removed \cup {Unlinked(f)}
                /\ Advance(pending \ {f}, present')
       \/ /\ Program[ip].op = "unlink_one"
          /\ present' = present \ {Program[ip].file}
          /\ removed' = removed \cup {Unlinked(Program[ip].file)}
          /\ Goto(ip + 1, present')
    /\ UNCHANGED <<archive, copied, unifyError, unifyExit>>
    /\ UnifyKept

\* create_templates() and create_unification_report()
CreateFiles ==
    /\ Running
    /\ Program[ip].op \in {"create_templates", "create_unification_report"}
    /\ present' = present \cup {IF Program[ip].op = "create_templates" THEN Templates
                                ELSE UnificationReport}
    /\ Goto(ip + 1, present')
    /\ UNCHANGED <<archive, copied, removed, unifyError, unifyExit>>
    /\ UnifyKept

\* a file operation fails (no space, no permission)
OperationFails ==
    /\ Running
    /\ Program[ip].op # "return"
    /\ RaiseInStep
    /\ UNCHANGED <<present, archive, copied, removed>>
    /\ UnifyKept

\* main(): return 0
Return ==
    /\ Running
    /\ Program[ip].op = "return"
    /\ unifyExit' = 0
    /\ UNCHANGED <<present, ip, pending, archive, copied, removed, unifyError>>
    /\ UnifyKept

UnifyNext ==
    \/ ArchiveFile
    \/ CopyCanonical
    \/ Unlink
    \/ CreateFiles
    \/ OperationFails
    \/ Return

UnifySpec == UnifyInit /\ [][UnifyNext]_vars

\* the steps of main() in the order it calls them
StepOrder == <<"unify_csv_files", "unify_manifest_files", "unify_schema_files",
               "unify_readme_files", "unify_howto_files", "create_templates",
               "create_unification_report", "main">>
StepIndex(function) == CHOOSE i \in 1..Len(StepOrder) : StepOrder[i] = function
StepsWithEffect ==
    {a.function : a \in archive} \cup {c.function : c \in copied} \cup {r.function : r \in removed}

\* C27: every file unlinked by a step has a copy in the archive made by the same
\* step, and that step has written a canonical target; when a step has raised,
\* main() has returned 1 and no later step has done anything
C27_ArchivedBeforeRemoved ==
    /\ \A r \in removed :
          /\ \E a \in archive : a.of = r.file /\ a.function = r.function
          /\ \E c \in copied : c.function = r.function
    /\ unifyError # "none" =>
          /\ unifyExit = 1
          /\ \A function \in StepsWithEffect : StepIndex(function) <= StepIndex(unifyError)
          /\ Templates \in present => unifyError \in {"create_unification_report"}

C27_Witness ==
    /\ unifyError = "unify_readme_files"
    /\ unifyExit = 1
    /\ \E r \in removed : r.file = ManifestV1
    /\ \E r \in removed : r.file = CapsuleV2
    /\ \E r \in removed : r.file = ReadmeExtended
    /\ ReadmeHealed \in present
    /\ HowtoV31 \in present

----------------------------------------------------------------------------
(* test_slo_check: check_slo *)

MaxSlos == 2   \* entries of the policy's slo list

\* a number n/d
Num(n, d) == [n |-> n, d |-> d]
NumLess(a, b) == a.n * b.d < b.n * a.d
NumEq(a, b) == a.n * b.d = b.n * a.d
\* the None metrics.get returns for a missing key
NoNum == [n |-> 0, d |-> 0]

\* s.split(sep): the pieces of s between the occurrences of sep
FirstAt(s, sep) ==
    IF Contains(sep, s)
    THEN CHOOSE i \in 1..Len(s) : /\ SubSeq(s, i, i + Len(sep) - 1) = sep
                                  /\ \A j \in 1..(i - 1) : SubSeq(s, j, j + Len(sep) - 1) # sep
    ELSE 0
Before(s, sep) == IF FirstAt(s, sep) = 0 THEN s ELSE SubSeq(s, 1, FirstAt(s, sep) - 1)
After(s, sep) == SubSeq(s, FirstAt(s, sep) + Len(sep), Len(s))

\* s.strip()
RECURSIVE Strip(_)
Strip(s) ==
    IF s # <<>> /\ Head(s) = " " THEN Strip(Tail(s))
    ELSE IF s # <<>> /\ s[Len(s)] = " " THEN Strip(SubSeq(s, 1, Len(s) - 1))
    ELSE s

IsDigits(s) == s # <<>> /\ \A i \in 1..Len(s) : \E d \in 1..10 : Digit[d] = s[i]

\* int(s) for a string of decimal digits
RECURSIVE IntOfDigits(_)
IntOfDigits(s) ==
    IF s = <<>> THEN 0
    ELSE 10 * IntOfDigits(SubSeq(s, 1, Len(s) - 1))
         + (CHOOSE d \in 1..10 : Digit[d] = s[Len(s)]) - 1

\* slo['target'].split('<')[1].strip().split('ms')[0].strip()
target_str(target) == Strip(Before(Strip(Before(After(target, <<"<">>), <<"<">>)), <<"m", "s">>))

\* the indexing [1] and int() succeed
TargetParses(target) == Contains(<<"<">>, target) /\ IsDigits(target_str(target))

\* the target texts of the policy and the limits they stand for
TargetTexts ==
    <<[text |-> <<"<", " ", "1", "0", "0", "m", "s">>, limit |-> 100],
      [text |-> <<"<", "5", "0", "m", "s", " ", "p", "9", "5">>, limit |-> 50],
      [text |-> <<"<", "=", " ", "5", "0", "m", "s">>, limit |-> 50]>>
LimitOf(text) == TargetTexts[CHOOSE i \in 1..Len(TargetTexts) : TargetTexts[i].text = text].limit

\* the entries a policy's slo list is made of
SloEntries ==
    {[name |-> "Startup", metric |-> "startup_lt_ms", target |-> TargetTexts[1].text],
     [name |-> "Response", metric |-> "response_lt_ms", target |-> TargetTexts[2].text],
     [name |-> "Response", metric |-> "response_lt_ms", target |-> TargetTexts[3].text]}

\* slo['metric'] + '_p95'
MetricKey(metric) == <<metric, "_p95">>
BurnRateKey == <<"weekly_burn_rate">>
RedlinesKey == <<"active_redlines">>

\* the values the metrics take around their targets
P95Values(limit) == {Num(limit + d, 1) : d \in (0 - MaxMetricDev)..MaxMetricDev}
BurnRateValues == {Num(3, 4), Num(1, 1), Num(5, 4)}
RedlineValues == {Num(0, 1), Num(1, 1)}

MetricMaps ==
    UNION {{[k \in keys |-> IF k = MetricKey("startup_lt_ms") THEN startup
                            ELSE IF k = MetricKey("response_lt_ms") THEN response
                            ELSE IF k = BurnRateKey THEN burn ELSE redlines] :
               startup \in P95Values(100), response \in P95Values(50),
               burn \in BurnRateValues, redlines \in RedlineValues} :
           keys \in SUBSET {MetricKey("startup_lt_ms"), MetricKey("response_lt_ms"),
                            BurnRateKey, RedlinesKey}}

\* metrics.get(key)
MetricGet(m, key) == IF key \in DOMAIN m THEN m[key] ELSE NoNum

\* fault variant: a metric at its target passes
SloPassed_orEqual(current_value, target_value) ==
    /\ current_value # NoNum
    /\ ~ NumLess(Num(target_value, 1), current_value)

\* current_value is not None and current_value < target_value
SloPassed(current_value, target_value) ==
    /\ current_value # NoNum
    /\ NumLess(current_value, Num(target_value, 1))

Status(passed) == IF passed THEN "PASS" ELSE "FAIL"

\* check_slo: the (overall_pass, results) it returns
check_slo(slos, m) ==
    LET slo_results ==
            [i \in 1..Len(slos) |->
                LET current_value == MetricGet(m, MetricKey(slos[i].metric))
                IN [slo |-> slos[i].name, metric |-> MetricKey(slos[i].metric),
                    target |-> slos[i].target, current |-> current_value,
                    status |-> Status(SloPassed(current_value,
                                                IntOfDigits(target_str(slos[i].target))))]]
        burn_rate == MetricGet(m, BurnRateKey)
        burn_rate_passed == burn_rate # NoNum /\ NumLess(burn_rate, Num(1, 1))
        active_redlines == MetricGet(m, RedlinesKey)
        redline_passed == active_redlines # NoNum /\ NumEq(active_redlines, Num(0, 1))
    IN [overall_pass |-> /\ \A i \in 1..Len(slo_results) : slo_results[i].status = "PASS"
                         /\ burn_rate_passed
                         /\ redline_passed,
        results |-> slo_results
                    \o <<[slo |-> "Error Budget Burn Rate", metric |-> BurnRateKey,
                          target |-> <<"<", " ", "1", ".", "0">>, current |-> burn_rate,
                          status |-> Status(burn_rate_passed)],
                         [slo |-> "Redline Alerts", metric |-> RedlinesKey,
                          target |-> <<"=", " ", "0">>, current |-> active_redlines,
                          status |-> Status(redline_passed)]>>]

NoCheck == [overall_pass |-> FALSE, results |-> <<>>]

SloInit ==
    /\ slo \in UNION {[1..n -> SloEntries] : n \in 0..MaxSlos}
    /\ metrics \in MetricMaps
    /\ checked = NoCheck
    /\ sloPc = "check_slo"
    /\ AnalyzerIdle
    /\ IdleExcept("test_slo_check")

\* overall_pass, results = check_slo(policy, metrics); a target the parse does not
\* cover ends the call with IndexError or ValueError
CheckSlo ==
    /\ sloPc = "check_slo"
    /\ IF \A i \in 1..Len(slo) : TargetParses(slo[i].target)
       THEN /\ checked' = check_slo(slo, metrics)
            /\ sloPc' = "done"
       ELSE /\ sloPc' = "raised"
            /\ UNCHANGED checked
    /\ UNCHANGED <<slo, metrics>>
    /\ UNCHANGED analyzerVars
    /\ OthersUnchanged("test_slo_check")

SloNext ==
    \/ CheckSlo

SloSpec == SloInit /\ [][SloNext]_vars

\* C28: overall_pass holds exactly when every result has status PASS; the result
\* of the i-th SLO is PASS exactly when its <metric>_p95 is in the metrics and below
\* the target, that of the burn rate exactly when weekly_burn_rate is there and
\* below 1, that of the redlines exactly when active_redlines is there and 0
C28_OverallPassIffAllPass ==
    sloPc = "done" =>
        LET returned == checked.results
            n == Len(slo)
        IN /\ Len(returned) = n + 2
           /\ checked.overall_pass <=> \A i \in 1..Len(returned) : returned[i].status = "PASS"
           /\ \A i \in 1..Len(returned) : returned[i].status \in {"PASS", "FAIL"}
           /\ \A i \in 1..n :
                 returned[i].status = "PASS"
                    <=> /\ MetricKey(slo[i].metric) \in DOMAIN metrics
                        /\ metrics[MetricKey(slo[i].metric)].n
                              < LimitOf(slo[i].target) * metrics[MetricKey(slo[i].metric)].d
           /\ returned[n + 1].status = "PASS"
                 <=> /\ BurnRateKey \in DOMAIN metrics
                     /\ metrics[BurnRateKey].n < metrics[BurnRateKey].d
           /\ returned[n + 2].status = "PASS"
                 <=> /\ RedlinesKey \in DOMAIN metrics
                     /\ metrics[RedlinesKey].n = 0

C28_Witness ==
    /\ sloPc = "done"
    /\ Len(slo) = 2
    /\ slo[1].metric # slo[2].metric
    /\ MetricKey(slo[1].metric) \notin DOMAIN metrics
    /\ ~ checked.overall_pass
    /\ checked.results[1].status = "FAIL"
    /\ \A i \in 2..4 : checked.results[i].status = "PASS"

----------------------------------------------------------------------------
(* migrate_config: ConfigMigrator *)

MaxVersions == 2   \* version numbers a configuration or a request can name

VersionNames == <<"1.0.0", "2.0.0", "3.0.0", "4.0.0">>
MigVersions == {VersionNames[i] : i \in 1..MaxVersions}
DefaultVersion == "1.0.0"

\* ConfigMigrator.MIGRATIONS: _register_migrations registers nothing
MIGRATIONS == <<>>

\* self.MIGRATIONS.get(f"{from_version}->{to_version}", [])
_find_migration_path(from, to) ==
    IF \E i \in 1..Len(MIGRATIONS) : MIGRATIONS[i].key = <<from, "->", to>>
    THEN MIGRATIONS[CHOOSE i \in 1..Len(MIGRATIONS) : MIGRATIONS[i].key = <<from, "->", to>>].steps
    ELSE <<>>

\* current = migration.handler(current) for every step of the path; a handler is
\* given by the items it sets
RECURSIVE ApplyMigrations(_, _)
ApplyMigrations(current, steps) ==
    IF steps = <<>> THEN current
    ELSE ApplyMigrations(DictUpdateKey(current, Head(steps).sets), Tail(steps))

\* ConfigMigrator.migrate: what it returns, or the exception it raises
migrate(config, from, to) ==
    IF PyEq(from, to) THEN [outcome |-> "returned", config |-> config]
    ELSE IF _find_migration_path(from, to) = <<>>
    THEN [outcome |-> "ValueError", config |-> <<>>]
    ELSE [outcome |-> "returned",
          config |-> ApplyMigrations(config, _find_migration_path(from, to))]

\* the configurations to migrate: with or without a version, which a YAML file
\* can also give as a number
MigConfigs ==
    {<<>>, D1("name", StrValue("svc"))}
    \cup {D1("version", v) : v \in {StrValue(n) : n \in MigVersions} \cup {IntValue(1)}}
    \cup {D2("name", StrValue("svc"), "version", StrValue(n)) : n \in MigVersions}

Supported == {".yaml", ".yml", ".json"}
SourceSuffixes == {".yaml", ".json", ".toml"}
\* the --output argument by its suffix; "" when the option is not given
Outputs == {"", ".yaml", ".json", ".txt"}

NoOutputFile == [exists |-> FALSE, written |-> FALSE, document |-> <<>>]
NotCalled == [outcome |-> "pending", config |-> <<>>]

MigrateInit ==
    /\ migConfig \in MigConfigs
    /\ migSource \in {[exists |-> FALSE, suffix |-> ".yaml"]}
                     \cup {[exists |-> TRUE, suffix |-> s] : s \in SourceSuffixes}
    /\ from_version \in {StrValue(n) : n \in MigVersions}
    /\ to_version \in {StrValue(n) : n \in MigVersions}
    /\ output \in Outputs
    /\ migCall = "none"
    /\ migrated = NotCalled
    /\ outFile = NoOutputFile
    /\ AnalyzerIdle
    /\ IdleExcept("ConfigMigrator")

MigrateKept == UNCHANGED analyzerVars /\ OthersUnchanged("ConfigMigrator")

\* migrator.migrate(config, from_version, to_version)
Migrate ==
    /\ migCall = "none"
    /\ migCall' = "migrate"
    /\ migrated' = migrate(migConfig, from_version, to_version)
    /\ UNCHANGED <<migConfig, migSource, from_version, to_version, output, outFile>>
    /\ MigrateKept

\* config.get("version", "1.0.0")
DetectedVersion(config) ==
    IF "version" \in Keys(config) THEN Item(config, "version").value ELSE StrValue(DefaultVersion)

\* migrator.migrate_file(filepath, to_version, output): the file is opened for
\* writing after migrate has returned, and the document is dumped into it when the
\* suffix of the output path is .yaml, .yml or .json
MigrateFile ==
    /\ migCall = "none"
    /\ migCall' = "migrate_file"
    /\ IF ~ migSource.exists
       THEN /\ migrated' = [outcome |-> "FileNotFoundError", config |-> <<>>]
            /\ UNCHANGED outFile
       ELSE IF migSource.suffix \notin Supported
       THEN /\ migrated' = [outcome |-> "ValueError", config |-> <<>>]
            /\ UNCHANGED outFile
       ELSE LET answer == migrate(migConfig, DetectedVersion(migConfig), to_version)
                document == DictSetKey(answer.config, [key |-> "version", value |-> to_version])
                suffix == IF output = "" THEN migSource.suffix ELSE output
            IN IF answer.outcome # "returned"
               THEN /\ migrated' = answer
                    /\ UNCHANGED outFile
               ELSE /\ migrated' = [outcome |-> "returned", config |-> document]
                    /\ outFile' = [exists |-> TRUE, written |-> suffix \in Supported,
                                   document |-> IF suffix \in Supported THEN document ELSE <<>>]
    /\ UNCHANGED <<migConfig, migSource, from_version, to_version, output>>
    /\ MigrateKept

MigrateNext ==
    \/ Migrate
    \/ MigrateFile

MigrateSpec == MigrateInit /\ [][MigrateNext]_vars

\* C29: migrate with equal versions returns a dict equal to its argument and
\* leaves the argument as it was, with different versions it raises ValueError;
\* migrate_file writes no file when migrate raises, and when it returns the file
\* it wrote holds a configuration whose version is the requested one
C29_MigrateContract ==
    [][/\ migCall' = "migrate" =>
             /\ migConfig' = migConfig
             /\ PyEq(from_version, to_version) =>
                   migrated'.outcome = "returned" /\ DictEq(migrated'.config, migConfig)
             /\ ~ PyEq(from_version, to_version) => migrated'.outcome = "ValueError"
       /\ migCall' = "migrate_file" =>
             /\ migrated'.outcome # "returned" => ~ outFile'.exists
             /\ migrated'.outcome = "returned" =>
                   /\ outFile'.exists
                   /\ outFile'.written
                   /\ "version" \in Keys(outFile'.document)
                   /\ Item(outFile'.document, "version").value = to_version]_vars

====
